---- MODULE Spec2Model ----
(***************************************************************************)
(* A model of the fault-injection and consistency-verification harnesses   *)
(* of fyp-atomix: the enhanced failover test (experiment 4: leader         *)
(* tracker, failure injector, recovery detector, trial execution and       *)
(* reports) and the concurrency test (linearizability and write            *)
(* durability verifiers).                                                  *)
(*                                                                         *)
(* The store (atomix map) and the cluster platform (Kubernetes API) are    *)
(* external: every call to them is a nondeterministic choice among the     *)
(* outcomes the call can have.  Kubernetes names are modelled by their     *)
(* dash-separated fields, so that "consensus-store-1-2" is                 *)
(* <<"consensus","store","1","2">> and strings.Split(name, "-")[3] is      *)
(* field 4 of the sequence.  The empty string is the empty sequence.       *)
(***************************************************************************)
EXTENDS Integers, Sequences, FiniteSets, TLC

VARIABLES
    leaderCache,     \* eft.leaderCache: partition number -> LeaderInfo
    polledSinceWrite,\* history: a refresh has succeeded since the last Put of a trial
    ctxDone,         \* the top-level context has been cancelled
    w,               \* the frame of the running wait function
                     \* (waitForLeaderElection or waitForReadyLeader)
    deletes,         \* the pod delete requests sent to the platform, in order
    platformAnswer,  \* the platform's answer to the last delete request
    terminatedLog,   \* the pods logged with TERMINATION_SUCCESS, in order
    tp,              \* the frame of a direct call of terminateLeaderPod
    testCounter,     \* eft.testCounter
    results,         \* eft.results
    t,               \* the frame of the running trial (executeImmediateReadTest
                     \* or executePrecisionFailoverTest)
    run,             \* the frame of runPrecisionFailoverTests or
                     \* runComprehensiveFailoverTests
    report,          \* the counts the final report logs
    ct,              \* the concurrency test: ConcurrencyTest, ConsistencyTracker
                     \* and the running test function
    rf,              \* the frame of a direct call of updateLeaderInfo
    an,              \* the frame of a call of the log analyzer
    lk,              \* leaderMux and the goroutines that take it
    ar,              \* the analysis of the log of a finished run
    cn,              \* a harness up to the start of its workload
    wl,              \* writeLog, writeLogMux and the writer and reader goroutines
    em,              \* the ElectionManager, its callers and the elections they created
    re,              \* the frame of one runElection goroutine
    hb               \* the heartbeat map, the elections' candidates and the monitor's frame

vars == <<leaderCache, polledSinceWrite, ctxDone, w, deletes, platformAnswer,
          terminatedLog, tp, testCounter, results, t, run, report, ct, rf, an, lk, ar, cn, wl, em, re, hb>>

\* The platform side of terminateLeaderPod.
platformVars == <<deletes, platformAnswer, terminatedLog>>

\* The state of the failover test run.
runVars == <<testCounter, results, t, run, report>>

\* The frames of the direct calls.
auxVars == <<rf, an, lk, ar, cn, wl, em, re, hb>>

\* What the wait functions leave alone.
notWait == <<platformVars, tp, runVars, ct, auxVars>>

\* The leader cache and its history.
cacheVars == <<leaderCache, polledSinceWrite>>

\* The failover test of experiment 4, the concurrency test and the frames of
\* their direct calls.
coreVars == <<cacheVars, ctxDone, w, platformVars, tp, runVars, ct, rf, an, lk, ar, cn>>

(***************************************************************************)
(* Names and numbers                                                       *)
(***************************************************************************)

\* strconv.Atoi on one field: the numeric fields of the model, and their values.
NumericTokens == {"0", "1", "2", "3"}

IsNumeric(tok) == tok \in NumericTokens

Atoi(tok) ==
    CASE tok = "0" -> 0
      [] tok = "1" -> 1
      [] tok = "2" -> 2
      [] tok = "3" -> 3

\* strconv.Itoa, as one field.
Itoa(n) ==
    CASE n = -1 -> "-1"
      [] n = 0 -> "0"
      [] n = 1 -> "1"
      [] n = 2 -> "2"
      [] n = 3 -> "3"

\* strings.Contains(leaderName, "consensus-store-")
ContainsStorePrefix(name) ==
    \E i \in 1..Len(name) :
        /\ i + 2 <= Len(name)
        /\ name[i] = "consensus"
        /\ name[i + 1] = "store"

(***************************************************************************)
(* LeaderInfo and the leader cache                                         *)
(***************************************************************************)

LeaderInfo(part, pod, idx, term, state) ==
    [PartitionID |-> part, PodName |-> pod, PodIndex |-> idx,
     Term |-> term, State |-> state]

\* LeaderInfo{}: Go's zero value.
ZeroLeaderInfo == LeaderInfo(0, <<>>, 0, 0, "")

\* eft.leaderCache[k] = v
CachePut(cache, k, v) == [p \in DOMAIN cache \cup {k} |-> IF p = k THEN v ELSE cache[p]]

\* The podIndex computed from a leader name.
PodIndexOf(leaderName) ==
    IF /\ ContainsStorePrefix(leaderName)
       /\ Len(leaderName) >= 4
       /\ IsNumeric(leaderName[4])
    THEN Atoi(leaderName[4])
    ELSE -1

\* strings.Split(groupName, "-")[2] is out of range: the loop body panics.
ItemPanics(item) == Len(item.groupName) < 3

\* One iteration of the loop over raftGroups.Items.
ProcessItem(cache, item) ==
    IF ~IsNumeric(item.groupName[3]) THEN cache
    ELSE LET partNum == Atoi(item.groupName[3]) IN
        IF ~item.hasStatus THEN cache
        ELSE IF ~item.hasLeader
             THEN CachePut(cache, partNum, LeaderInfo(partNum, <<>>, 0, 0, "no-leader"))
        ELSE IF ~item.hasName THEN cache
        ELSE LET term == IF item.hasTerm THEN item.term ELSE 0
                 state == IF item.hasState THEN item.state ELSE "unknown"
             IN CachePut(cache, partNum,
                    LeaderInfo(partNum, item.leaderName,
                               PodIndexOf(item.leaderName), term, state))

\* The loop of updateLeaderInfo over the listed items, up to the first panic.
RECURSIVE ProcessItems(_, _)
ProcessItems(cache, items) ==
    IF items = <<>> \/ ItemPanics(Head(items)) THEN cache
    ELSE ProcessItems(ProcessItem(cache, Head(items)), Tail(items))

UpdatePanics(items) == \E i \in 1..Len(items) : ItemPanics(items[i])

\* getLeaderForPartition: (leader, exists)
GetLeaderForPartition(cache, partitionID) ==
    IF partitionID \in DOMAIN cache
    THEN [exists |-> TRUE, info |-> cache[partitionID]]
    ELSE [exists |-> FALSE, info |-> ZeroLeaderInfo]

(***************************************************************************)
(* The platform's answers to the RaftGroup list query                      *)
(***************************************************************************)

PodA == <<"consensus", "store", "1", "1">>
PodB == <<"consensus", "store", "1", "2">>

GroupName(tok) == <<"consensus", "store", tok>>

Item(group, hasStatus, hasLeader, hasName, name, hasTerm, term, hasState, state) ==
    [groupName |-> group, hasStatus |-> hasStatus, hasLeader |-> hasLeader,
     hasName |-> hasName, leaderName |-> name, hasTerm |-> hasTerm, term |-> term,
     hasState |-> hasState, state |-> state]

MaxTerm == 2

PartitionTokens == {"0", "1"}
LeaderNames == {PodA, PodB}
Terms == 1..MaxTerm

ItemsFor(group) ==
    {Item(group, FALSE, FALSE, FALSE, <<>>, FALSE, 0, FALSE, ""),
     Item(group, TRUE, FALSE, FALSE, <<>>, FALSE, 0, FALSE, ""),
     Item(group, TRUE, TRUE, FALSE, <<>>, FALSE, 0, FALSE, ""),
     Item(group, TRUE, TRUE, TRUE, PodA, FALSE, 0, TRUE, "Ready")}
    \cup {Item(group, TRUE, TRUE, TRUE, n, TRUE, term, TRUE, "Ready") :
            n \in LeaderNames, term \in Terms}
    \cup {Item(group, TRUE, TRUE, TRUE, n, TRUE, term, FALSE, "") :
            n \in LeaderNames, term \in Terms}

Items == UNION {ItemsFor(GroupName(tok)) : tok \in PartitionTokens}

\* The responses of the model: no item, or one item.
Responses == {<<>>} \cup {<<i>> : i \in Items}

partitionCount == 3

Partitions == 0..(partitionCount - 1)

(***************************************************************************)
(* The wait loops: waitForLeaderElection                                   *)
(*                                                                         *)
(* w is the frame of the running wait function:                            *)
(*   fn            "none", "election" (waitForLeaderElection)              *)
(*   pc            "select"  the select statement is evaluated: one of the *)
(*                           ready cases, picked at random, or none is     *)
(*                           ready and the goroutine parks;                *)
(*                 "blocked" parked in the select: the first channel to    *)
(*                           become ready resumes it with that case;       *)
(*                 "refresh" the tick case runs, updateLeaderInfo is in    *)
(*                           flight;                                       *)
(*                 "settle"  time.Sleep(2s) and the second updateLeader-   *)
(*                           Info are in flight;                           *)
(*                 "done"    the function has returned ret;                *)
(*   partitionID, originalTerm   its arguments;                            *)
(*   timeoutC, tickerC   timeout.C / ticker.C hold a value;                *)
(*   leader        local `leader` of the tick case (the triggering         *)
(*                 snapshot), LeaderInfo{} outside its scope;              *)
(*   err           local `err`: the last updateLeaderInfo failed;          *)
(*   ret           what the function returned: [kind, leader];             *)
(*   reports       history: how many of the polls of the current tick had  *)
(*                 the platform report the leader of the partition;        *)
(*   lateTick      history: the tick being served was taken from ticker.C  *)
(*                 when timeout.C was ready too;                           *)
(*   qualifiedInTime  history: the poll of a tick taken before the timer   *)
(*                 fired showed a Ready snapshot with Term > originalTerm. *)
(***************************************************************************)

NoRet == [kind |-> "none", leader |-> ZeroLeaderInfo]

NewWait(fn, pc, partitionID, originalTerm) ==
    [fn |-> fn, pc |-> pc, partitionID |-> partitionID, originalTerm |-> originalTerm,
     timeoutC |-> FALSE, tickerC |-> FALSE, leader |-> ZeroLeaderInfo, err |-> FALSE,
     ret |-> NoRet, lateTick |-> FALSE, qualifiedInTime |-> FALSE, reports |-> 0]

NoWait == NewWait("none", "done", 0, 0)

\* Mutant of Qualifies: the term comparison is left out.
QualifiesAnyTerm(r, originalTerm) ==
    r.exists /\ r.info.State = "Ready"

\* exists && leader.State == "Ready" && leader.Term > originalTerm
Qualifies(r, originalTerm) ==
    r.exists /\ r.info.State = "Ready" /\ r.info.Term > originalTerm

\* Mutant of Reconfirms: the pod name is not compared.
ReconfirmsAnyPod(r, leader) ==
    /\ r.exists
    /\ r.info.State = "Ready"
    /\ r.info.Term = leader.Term

\* stillExists && reconfirmedLeader.State == "Ready" &&
\* reconfirmedLeader.Term == leader.Term && reconfirmedLeader.PodName == leader.PodName
Reconfirms(r, leader) ==
    /\ r.exists
    /\ r.info.State = "Ready"
    /\ r.info.Term = leader.Term
    /\ r.info.PodName = leader.PodName

\* The timer, the ticker and the cancellation happen on their own while the
\* goroutine is parked in the select or busy in the body of the tick case.
Wake(pc) == IF pc = "blocked" THEN "select" ELSE pc

Waiting == w.fn # "none" /\ w.pc \in {"blocked", "first", "refresh", "settle"}

TimeoutFires ==
    /\ Waiting
    /\ ~w.timeoutC
    /\ w' = [w EXCEPT !.timeoutC = TRUE, !.pc = Wake(w.pc)]
    /\ UNCHANGED <<cacheVars, ctxDone, notWait>>

TickerFires ==
    /\ Waiting
    /\ ~w.tickerC
    /\ w' = [w EXCEPT !.tickerC = TRUE, !.pc = Wake(w.pc)]
    /\ UNCHANGED <<cacheVars, ctxDone, notWait>>

\* The interrupt handler of main cancels the context.
Cancel ==
    /\ ~ctxDone
    /\ w.pc # "select"
    /\ ctxDone' = TRUE
    /\ w' = [w EXCEPT !.pc = Wake(w.pc)]
    /\ UNCHANGED <<cacheVars, notWait>>

\* select: no case is ready
SelectBlocks ==
    /\ w.fn # "none" /\ w.pc = "select"
    /\ ~w.timeoutC /\ ~w.tickerC /\ ~ctxDone
    /\ w' = [w EXCEPT !.pc = "blocked"]
    /\ UNCHANGED <<cacheVars, ctxDone, notWait>>

\* case <-timeout.C
ElectionTimeout ==
    /\ w.fn = "election" /\ w.pc = "select"
    /\ w.timeoutC
    /\ w' = [w EXCEPT !.pc = "done",
                      !.ret = [kind |-> "timeout", leader |-> ZeroLeaderInfo]]
    /\ UNCHANGED <<cacheVars, ctxDone, notWait>>

\* case <-ctx.Done()
ElectionCancelled ==
    /\ w.fn = "election" /\ w.pc = "select"
    /\ ctxDone
    /\ w' = [w EXCEPT !.pc = "done",
                      !.ret = [kind |-> "cancelled", leader |-> ZeroLeaderInfo]]
    /\ UNCHANGED <<cacheVars, ctxDone, notWait>>

\* case <-ticker.C
ElectionTick ==
    /\ w.fn = "election" /\ w.pc = "select"
    /\ w.tickerC
    /\ w' = [w EXCEPT !.tickerC = FALSE, !.pc = "refresh", !.lateTick = w.timeoutC]
    /\ UNCHANGED <<cacheVars, ctxDone, notWait>>

\* err := eft.updateLeaderInfo(ctx); err != nil: continue
ElectionRefreshFails ==
    /\ w.fn = "election" /\ w.pc = "refresh"
    /\ w' = [w EXCEPT !.err = TRUE, !.pc = "select"]
    /\ UNCHANGED <<cacheVars, ctxDone, notWait>>

\* The response holds an item that updateLeaderInfo stores for the partition.
Reported(resp, partitionID) ==
    GetLeaderForPartition(ProcessItems(<<>>, resp), partitionID).exists

\* The refresh succeeds: the first poll, and its check.
ElectionPoll(responses) ==
    /\ w.fn = "election" /\ w.pc = "refresh"
    /\ ~ctxDone
    /\ \E resp \in responses :
        /\ ~UpdatePanics(resp)
        /\ leaderCache' = ProcessItems(leaderCache, resp)
        /\ polledSinceWrite' = TRUE
        /\ LET r == GetLeaderForPartition(leaderCache', w.partitionID)
               q == Qualifies(r, w.originalTerm)
           IN w' = [w EXCEPT !.err = FALSE,
                             !.leader = IF q THEN r.info ELSE ZeroLeaderInfo,
                             !.pc = IF q THEN "settle" ELSE "select",
                             !.qualifiedInTime = @ \/ (q /\ ~w.lateTick),
                             !.reports = IF q /\ Reported(resp, w.partitionID)
                                         THEN 1 ELSE 0]
    /\ UNCHANGED <<ctxDone, notWait>>

\* After time.Sleep(2 * time.Second) the second refresh fails: continue
ElectionSettleRefreshFails ==
    /\ w.fn = "election" /\ w.pc = "settle"
    /\ w' = [w EXCEPT !.err = TRUE, !.pc = "select", !.leader = ZeroLeaderInfo,
                      !.reports = 0]
    /\ UNCHANGED <<cacheVars, ctxDone, notWait>>

\* After time.Sleep(2 * time.Second) the second refresh succeeds: the re-poll,
\* and the stability check.
ElectionSettlePoll(responses) ==
    /\ w.fn = "election" /\ w.pc = "settle"
    /\ ~ctxDone
    /\ \E resp \in responses :
        /\ ~UpdatePanics(resp)
        /\ leaderCache' = ProcessItems(leaderCache, resp)
        /\ polledSinceWrite' = TRUE
        /\ LET reconfirmedLeader == GetLeaderForPartition(leaderCache', w.partitionID) IN
            IF Reconfirms(reconfirmedLeader, w.leader)
            THEN w' = [w EXCEPT !.err = FALSE, !.leader = ZeroLeaderInfo,
                                !.pc = "done",
                                !.ret = [kind |-> "leader",
                                         leader |-> reconfirmedLeader.info],
                                !.reports = @ + (IF Reported(resp, w.partitionID)
                                                 THEN 1 ELSE 0)]
            ELSE w' = [w EXCEPT !.err = FALSE, !.leader = ZeroLeaderInfo,
                                !.pc = "select", !.reports = 0]
    /\ UNCHANGED <<ctxDone, notWait>>

(***************************************************************************)
(* The wait loops: waitForReadyLeader                                      *)
(*                                                                         *)
(* The same frame w with fn = "ready"; pc = "first" while the refresh      *)
(* before the loop is in flight (the timer and the ticker already run).    *)
(***************************************************************************)

\* Mutant of ReadyWithPod: a leader without a pod name is accepted.
ReadyWithoutPod(r) ==
    r.exists /\ r.info.State = "Ready"

\* exists && leader.State == "Ready" && leader.PodName != ""
ReadyWithPod(r) ==
    r.exists /\ r.info.State = "Ready" /\ r.info.PodName # <<>>

\* Mutant of ReadyFirstRefreshFails: the cached leader is returned although
\* the refresh failed.
ReadyFirstRefreshFailsServesCache ==
    /\ w.fn = "ready" /\ w.pc = "first"
    /\ LET r == GetLeaderForPartition(leaderCache, w.partitionID) IN
        IF r.exists /\ r.info.State = "Ready" /\ r.info.PodName # <<>>
        THEN w' = [w EXCEPT !.err = TRUE, !.pc = "done",
                            !.ret = [kind |-> "leader", leader |-> r.info]]
        ELSE w' = [w EXCEPT !.err = TRUE, !.pc = "select"]
    /\ UNCHANGED <<cacheVars, ctxDone, notWait>>

\* err := eft.updateLeaderInfo(ctx) before the loop fails
ReadyFirstRefreshFails ==
    /\ w.fn = "ready" /\ w.pc = "first"
    /\ w' = [w EXCEPT !.err = TRUE, !.pc = "select"]
    /\ UNCHANGED <<cacheVars, ctxDone, notWait>>

\* The refresh before the loop succeeds, and its check.
ReadyFirstPoll(responses) ==
    /\ w.fn = "ready" /\ w.pc = "first"
    /\ ~ctxDone
    /\ \E resp \in responses :
        /\ ~UpdatePanics(resp)
        /\ leaderCache' = ProcessItems(leaderCache, resp)
        /\ polledSinceWrite' = TRUE
        /\ LET r == GetLeaderForPartition(leaderCache', w.partitionID) IN
            IF ReadyWithPod(r)
            THEN w' = [w EXCEPT !.err = FALSE, !.pc = "done",
                                !.ret = [kind |-> "leader", leader |-> r.info]]
            ELSE w' = [w EXCEPT !.err = FALSE, !.pc = "select"]
    /\ UNCHANGED <<ctxDone, notWait>>

\* case <-timeout.C
ReadyTimeout ==
    /\ w.fn = "ready" /\ w.pc = "select"
    /\ w.timeoutC
    /\ w' = [w EXCEPT !.pc = "done",
                      !.ret = [kind |-> "timeout", leader |-> ZeroLeaderInfo]]
    /\ UNCHANGED <<cacheVars, ctxDone, notWait>>

\* case <-ctx.Done()
ReadyCancelled ==
    /\ w.fn = "ready" /\ w.pc = "select"
    /\ ctxDone
    /\ w' = [w EXCEPT !.pc = "done",
                      !.ret = [kind |-> "cancelled", leader |-> ZeroLeaderInfo]]
    /\ UNCHANGED <<cacheVars, ctxDone, notWait>>

\* case <-ticker.C
ReadyTick ==
    /\ w.fn = "ready" /\ w.pc = "select"
    /\ w.tickerC
    /\ w' = [w EXCEPT !.tickerC = FALSE, !.pc = "refresh", !.lateTick = w.timeoutC]
    /\ UNCHANGED <<cacheVars, ctxDone, notWait>>

\* err := eft.updateLeaderInfo(ctx); err != nil: continue
ReadyRefreshFails ==
    /\ w.fn = "ready" /\ w.pc = "refresh"
    /\ w' = [w EXCEPT !.err = TRUE, !.pc = "select"]
    /\ UNCHANGED <<cacheVars, ctxDone, notWait>>

\* The refresh of a tick succeeds, and its check.
ReadyPoll(responses) ==
    /\ w.fn = "ready" /\ w.pc = "refresh"
    /\ ~ctxDone
    /\ \E resp \in responses :
        /\ ~UpdatePanics(resp)
        /\ leaderCache' = ProcessItems(leaderCache, resp)
        /\ polledSinceWrite' = TRUE
        /\ LET r == GetLeaderForPartition(leaderCache', w.partitionID) IN
            IF ReadyWithPod(r)
            THEN w' = [w EXCEPT !.err = FALSE, !.pc = "done",
                                !.ret = [kind |-> "leader", leader |-> r.info]]
            ELSE w' = [w EXCEPT !.err = FALSE, !.pc = "select"]
    /\ UNCHANGED <<ctxDone, notWait>>

(***************************************************************************)
(* terminateLeaderPod                                                      *)
(***************************************************************************)

NoError == [msg |-> "", pod |-> <<>>, cause |-> ""]

\* The errors the platform answers a delete request with.
PlatformErrors == {"pods not found", "forbidden"}

\* Mutant of TerminateLeaderPod: the empty pod name is not checked first and
\* a failed delete is not told from a successful one.
TerminateLeaderPodUnchecked(leader, answer) ==
    LET podName == <<"consensus", "store",
                     IF Len(leader.PodName) >= 4 /\ IsNumeric(leader.PodName[4])
                     THEN Itoa(Atoi(leader.PodName[4]) - 1) ELSE "-1">>
    IN [panic |-> FALSE, err |-> NoError,
        requests |-> <<podName>>, successes |-> <<podName>>]

\* Mutant of TerminateLeaderPod: the pod with the replica number itself is
\* deleted.
TerminateLeaderPodSameOrdinal(leader, answer) ==
    IF leader.PodName = <<>>
    THEN [panic |-> FALSE,
          err |-> [msg |-> "no leader pod to terminate", pod |-> <<>>, cause |-> ""],
          requests |-> <<>>, successes |-> <<>>]
    ELSE IF Len(leader.PodName) < 4
    THEN [panic |-> TRUE, err |-> NoError, requests |-> <<>>, successes |-> <<>>]
    ELSE IF ~IsNumeric(leader.PodName[4])
    THEN [panic |-> FALSE,
          err |-> [msg |-> "failed to parse pod number", pod |-> <<>>, cause |-> ""],
          requests |-> <<>>, successes |-> <<>>]
    ELSE LET podName == <<"consensus", "store", Itoa(Atoi(leader.PodName[4]))>>
         IN IF answer # "ok"
            THEN [panic |-> FALSE,
                  err |-> [msg |-> "failed to delete pod", pod |-> podName,
                           cause |-> answer],
                  requests |-> <<podName>>, successes |-> <<>>]
            ELSE [panic |-> FALSE, err |-> NoError,
                  requests |-> <<podName>>, successes |-> <<podName>>]

\* Mutant of TerminateLeaderPod: the error of the delete request is dropped.
TerminateLeaderPodDeleteUnchecked(leader, answer) ==
    IF leader.PodName = <<>> \/ Len(leader.PodName) < 4 \/ ~IsNumeric(leader.PodName[4])
    THEN [panic |-> FALSE,
          err |-> [msg |-> "no leader pod to terminate", pod |-> <<>>, cause |-> ""],
          requests |-> <<>>, successes |-> <<>>]
    ELSE LET podName == <<"consensus", "store", Itoa(Atoi(leader.PodName[4]) - 1)>>
         IN [panic |-> FALSE, err |-> NoError,
             requests |-> <<podName>>, successes |-> <<>>]

\* terminateLeaderPod(ctx, leader), the platform answering the delete request
\* (if one is sent) with `answer`: "ok" or an error.  The result is the error
\* returned, the delete requests sent and the pods logged as terminated;
\* panic: strings.Split(leader.PodName, "-")[3] is out of range.
TerminateLeaderPod(leader, answer) ==
    IF leader.PodName = <<>>
    THEN [panic |-> FALSE,
          err |-> [msg |-> "no leader pod to terminate", pod |-> <<>>, cause |-> ""],
          requests |-> <<>>, successes |-> <<>>]
    ELSE IF Len(leader.PodName) < 4
    THEN [panic |-> TRUE, err |-> NoError, requests |-> <<>>, successes |-> <<>>]
    ELSE IF ~IsNumeric(leader.PodName[4])
    THEN [panic |-> FALSE,
          err |-> [msg |-> "failed to parse pod number", pod |-> <<>>, cause |-> ""],
          requests |-> <<>>, successes |-> <<>>]
    ELSE LET podNum == Atoi(leader.PodName[4])
             podName == <<"consensus", "store", Itoa(podNum - 1)>>
         IN IF answer # "ok"
            THEN [panic |-> FALSE,
                  err |-> [msg |-> "failed to delete pod", pod |-> podName,
                           cause |-> answer],
                  requests |-> <<podName>>, successes |-> <<>>]
            ELSE [panic |-> FALSE, err |-> NoError,
                  requests |-> <<podName>>, successes |-> <<podName>>]

\* A direct call of terminateLeaderPod with the argument tp.leader.
TerminateCall ==
    /\ tp.pc = "call"
    /\ \E answer \in {"ok"} \cup PlatformErrors :
        LET res == TerminateLeaderPod(tp.leader, answer) IN
        /\ tp' = [tp EXCEPT !.pc = IF res.panic THEN "panic" ELSE "done",
                            !.err = res.err]
        /\ deletes' = deletes \o res.requests
        /\ terminatedLog' = terminatedLog \o res.successes
        /\ platformAnswer' = IF res.requests # <<>> THEN answer ELSE platformAnswer
    /\ UNCHANGED <<cacheVars, ctxDone, w, runVars, ct, auxVars>>

(***************************************************************************)
(* The store: atomix map Put and Get                                       *)
(***************************************************************************)

\* What a Get can return: (nil, err), (nil, nil) or an entry with a value,
\* the value asked about or another one.
OtherValue == [prefix |-> "other-value", testID |-> [prefix |-> "", n |-> 0]]

ReadOutcomes(value) ==
    {[kind |-> "error", value |-> OtherValue],
     [kind |-> "nil", value |-> OtherValue],
     [kind |-> "entry", value |-> value],
     [kind |-> "entry", value |-> OtherValue]}

\* A call with a cancelled context fails.
GetOutcomes(value) ==
    IF ctxDone THEN {[kind |-> "error", value |-> OtherValue]} ELSE ReadOutcomes(value)

PutOutcomes == IF ctxDone THEN {"error"} ELSE {"ok", "error"}

(***************************************************************************)
(* getKeyPartition                                                         *)
(***************************************************************************)

\* sha256.Sum256([]byte(key))[0] for the keys of the first trials:
\* "precision-key-test-00000n" and "immediate-key-imm-test-00000n".
FirstDigestByte(key) ==
    IF key.prefix = "precision-key"
    THEN CASE key.testID.n = 1 -> 72
           [] key.testID.n = 2 -> 30
           [] key.testID.n = 3 -> 206
           [] key.testID.n = 4 -> 124
           [] key.testID.n = 5 -> 43
           [] key.testID.n = 6 -> 201
    ELSE CASE key.testID.n = 1 -> 19
           [] key.testID.n = 2 -> 86
           [] key.testID.n = 3 -> 2
           [] key.testID.n = 4 -> 131
           [] key.testID.n = 5 -> 74
           [] key.testID.n = 6 -> 91

\* Mutant of getKeyPartition: the digest byte is not reduced.
getKeyPartitionUnreduced(key) == FirstDigestByte(key)

\* int(hash[0]) % eft.partitionCount
getKeyPartition(key) == FirstDigestByte(key) % partitionCount

(***************************************************************************)
(* One trial: executeImmediateReadTest and executePrecisionFailoverTest    *)
(*                                                                         *)
(* t is the frame of the running trial:                                    *)
(*   fn      "none", "immediate", "precision";                             *)
(*   pc      "waitReady"     waitForReadyLeader runs (frame w);            *)
(*           "put"           testMap.Put is in flight;                     *)
(*           "delay"         time.Sleep(delay);                            *)
(*           "immediateRead" the immediate Get is in flight;               *)
(*           "waitElection"  waitForLeaderElection runs (frame w);         *)
(*           "verify"        time.Sleep(1s), the verification Get is in    *)
(*                           flight;                                       *)
(*           "return"        the function has returned result;             *)
(*           "panic"         terminateLeaderPod panicked;                  *)
(*   partitionID, leader     its locals;                                   *)
(*   result  the TestResult, with three history fields: immediateRead and  *)
(*           verifyRead, what the immediate and the verification Get       *)
(*           returned ("none": not issued, "error", "nil", "mismatch",     *)
(*           "match"), and put, what the Put returned ("none", "ok",       *)
(*           "error").                                                     *)
(***************************************************************************)

NoValue == [prefix |-> "", testID |-> [prefix |-> "", n |-> 0]]

NoErr == [phase |-> "", cause |-> ""]

\* TestResult{TestID: testID, Scenario: scenario, ReadMode: mode}
NewResult(testID, scenario, mode) ==
    [TestID |-> testID, Scenario |-> scenario, ReadMode |-> mode,
     Key |-> NoValue, Value |-> NoValue, Success |-> FALSE, Error |-> NoErr,
     LeaderBefore |-> ZeroLeaderInfo, LeaderAfter |-> ZeroLeaderInfo,
     ImmediateReadErr |-> "", immediateRead |-> "none", verifyRead |-> "none",
     put |-> "none"]

NoTrial ==
    [fn |-> "none", pc |-> "return", delay |-> 0, partitionID |-> 0,
     leader |-> ZeroLeaderInfo, result |-> NewResult([prefix |-> "", n |-> 0], "", "")]

\* How a Get's outcome compares with the value written.
ReadKind(read, value) ==
    IF read.kind = "entry"
    THEN IF read.value = value THEN "match" ELSE "mismatch"
    ELSE read.kind

\* Mutant of ImmediateReadErr: a key that is not found is not an error.
ImmediateReadErrNotFoundOk(read, value) ==
    IF read.kind = "error" THEN "Immediate read failed"
    ELSE IF read.kind = "nil" THEN ""
    ELSE IF read.value # value THEN "Immediate read value mismatch"
    ELSE ""

\* result.ImmediateReadErr after the immediate Get
ImmediateReadErr(read, value) ==
    IF read.kind = "error" THEN "Immediate read failed"
    ELSE IF read.kind = "nil" THEN "Key not found during immediate read"
    ELSE IF read.value # value THEN "Immediate read value mismatch"
    ELSE ""

\* Mutant of VerificationError: a key that is not found passes.
VerificationErrorNotFoundOk(fn, read, value) ==
    IF read.kind = "error"
    THEN IF fn = "immediate" THEN "Post-recovery read failed"
         ELSE "Verification read failed"
    ELSE IF read.kind = "nil" THEN ""
    ELSE IF read.value # value
    THEN IF fn = "immediate" THEN "Post-recovery value mismatch" ELSE "Value mismatch"
    ELSE ""

\* result.Error after the verification Get, "" when the function goes on to
\* result.Success = true
VerificationError(fn, read, value) ==
    IF read.kind = "error"
    THEN IF fn = "immediate" THEN "Post-recovery read failed"
         ELSE "Verification read failed"
    ELSE IF read.kind = "nil"
    THEN IF fn = "immediate" THEN "Key not found during post-recovery verification"
         ELSE "Key not found during verification"
    ELSE IF read.value # value
    THEN IF fn = "immediate" THEN "Post-recovery value mismatch" ELSE "Value mismatch"
    ELSE ""

\* Mutant of Fail: the function returns without setting result.Error.
FailSilently(phase, cause) == [t EXCEPT !.pc = "return"]

\* result.Error = ...; return result
Fail(phase, cause) ==
    [t EXCEPT !.pc = "return", !.result.Error = [phase |-> phase, cause |-> cause]]

\* The scenario table of runComprehensiveFailoverTests and
\* runPrecisionFailoverTests, one entry for each (scenario, delay in ms).
ScenarioTable ==
    <<[scenario |-> "ImmediateFailure", delay |-> 0],
      [scenario |-> "DuringReplication", delay |-> 50],
      [scenario |-> "DuringReplication", delay |-> 100],
      [scenario |-> "DuringReplication", delay |-> 200],
      [scenario |-> "PrecisionTimed", delay |-> 10],
      [scenario |-> "PrecisionTimed", delay |-> 25],
      [scenario |-> "PrecisionTimed", delay |-> 75],
      [scenario |-> "RapidSequential", delay |-> 0],
      [scenario |-> "RapidSequential", delay |-> 0],
      [scenario |-> "RapidSequential", delay |-> 0]>>

\* The model runs the first entries of the table, as many as make at most
\* MaxTrials trials: an entry is one trial in precision mode and two trials in
\* comprehensive mode.
MaxTrials == 2

Entries ==
    SubSeq(ScenarioTable, 1,
           IF run.mode = "comprehensive" THEN MaxTrials \div 2 ELSE MaxTrials)

\* Mutant of NextTrialFn: the immediate-read trial is left out.
NextTrialFnPostRecoveryOnly == "precision"

\* The function the loop calls next.
NextTrialFn ==
    IF run.mode = "comprehensive" /\ run.half = "immediate"
    THEN "immediate" ELSE "precision"

\* The call of a trial function, up to its call of waitForReadyLeader.
TrialStart ==
    /\ run.pc = "loop"
    /\ run.entry <= Len(Entries)
    /\ testCounter' = testCounter + 1
    /\ run' = [run EXCEPT !.pc = "trial"]
    /\ LET fn == NextTrialFn
           entry == Entries[run.entry]
           testID == [prefix |-> IF fn = "immediate" THEN "imm-test" ELSE "test",
                      n |-> testCounter']
           key == [prefix |-> IF fn = "immediate" THEN "immediate-key"
                              ELSE "precision-key",
                   testID |-> testID]
           value == [prefix |-> IF fn = "immediate" THEN "immediate-value"
                                ELSE "precision-value",
                     testID |-> testID]
           result == NewResult(testID, entry.scenario,
                               IF fn = "immediate" THEN "ImmediateRead"
                               ELSE "PostRecoveryRead")
           frame == [fn |-> fn, pc |-> "waitReady", delay |-> entry.delay,
                     partitionID |-> 0, leader |-> ZeroLeaderInfo, result |-> result]
       IN \E mapOk \in IF ctxDone THEN {FALSE} ELSE BOOLEAN :
            IF ~mapOk
            THEN /\ t' = [frame EXCEPT !.pc = "return",
                                       !.result.Error =
                                           [phase |-> "Failed to get map instance",
                                            cause |-> "error"]]
                 /\ UNCHANGED w
            ELSE /\ t' = [frame EXCEPT !.result.Key = key, !.result.Value = value,
                                       !.partitionID = getKeyPartition(key)]
                 /\ w' = NewWait("ready", "first", getKeyPartition(key), 0)
    /\ UNCHANGED <<cacheVars, ctxDone, platformVars, tp, results, report, ct, auxVars>>

\* waitForReadyLeader has returned; the Put is issued.
TrialReadyLeader ==
    /\ t.fn # "none" /\ t.pc = "waitReady"
    /\ w.fn = "ready" /\ w.pc = "done"
    /\ IF w.ret.kind # "leader"
       THEN t' = Fail("Failed to find ready leader", w.ret.kind)
       ELSE t' = [t EXCEPT !.pc = "put", !.leader = w.ret.leader,
                           !.result.LeaderBefore = w.ret.leader]
    /\ UNCHANGED <<cacheVars, ctxDone, w, platformVars, tp, testCounter, results,
                   run, report, ct, auxVars>>

\* Mutant of WriteFailed: the error of the Put is not looked at.
WriteFailedNever(outcome) == FALSE

\* _, err = testMap.Put(...); if err != nil
WriteFailed(outcome) == outcome # "ok"

\* testMap.Put returns.
TrialPutReturns ==
    /\ t.fn # "none" /\ t.pc = "put"
    /\ \E outcome \in PutOutcomes :
        IF WriteFailed(outcome)
        THEN /\ t' = [Fail("Write failed", outcome) EXCEPT !.result.put = outcome]
             /\ UNCHANGED polledSinceWrite
        ELSE /\ t' = [t EXCEPT !.pc = "delay", !.result.put = outcome]
             /\ polledSinceWrite' = FALSE
    /\ UNCHANGED <<leaderCache, ctxDone, w, platformVars, tp, testCounter, results,
                   run, report, ct, auxVars>>

\* After the delay: terminateLeaderPod(ctx, leader), and the call that
\* follows it (the immediate Get, or waitForLeaderElection).
TrialTerminate ==
    /\ t.fn # "none" /\ t.pc = "delay"
    /\ \E answer \in {"ok"} \cup PlatformErrors :
        LET res == TerminateLeaderPod(t.leader, answer) IN
        /\ deletes' = deletes \o res.requests
        /\ terminatedLog' = terminatedLog \o res.successes
        /\ platformAnswer' = IF res.requests # <<>> THEN answer ELSE platformAnswer
        /\ IF res.panic
           THEN t' = [t EXCEPT !.pc = "panic"] /\ UNCHANGED w
           ELSE IF res.err # NoError
           THEN t' = Fail("Failed to terminate leader", res.err.msg) /\ UNCHANGED w
           ELSE IF t.fn = "immediate"
           THEN t' = [t EXCEPT !.pc = "immediateRead"] /\ UNCHANGED w
           ELSE /\ t' = [t EXCEPT !.pc = "waitElection"]
                /\ w' = NewWait("election", "select", t.partitionID, t.leader.Term)
    /\ UNCHANGED <<cacheVars, ctxDone, tp, testCounter, results, run, report, ct, auxVars>>

\* The immediate Get returns (within its 5 s, or with the deadline error);
\* waitForLeaderElection is called.
TrialImmediateRead ==
    /\ t.fn = "immediate" /\ t.pc = "immediateRead"
    /\ \E read \in GetOutcomes(t.result.Value) :
        t' = [t EXCEPT !.pc = "waitElection",
                       !.result.ImmediateReadErr = ImmediateReadErr(read, t.result.Value),
                       !.result.immediateRead = ReadKind(read, t.result.Value)]
    /\ w' = NewWait("election", "select", t.partitionID, t.leader.Term)
    /\ UNCHANGED <<cacheVars, ctxDone, platformVars, tp, testCounter, results,
                   run, report, ct, auxVars>>

\* waitForLeaderElection has returned.
TrialElectionReturns ==
    /\ t.fn # "none" /\ t.pc = "waitElection"
    /\ w.fn = "election" /\ w.pc = "done"
    /\ IF w.ret.kind # "leader"
       THEN t' = Fail("Leader election failed", w.ret.kind)
       ELSE t' = [t EXCEPT !.pc = "verify", !.result.LeaderAfter = w.ret.leader]
    /\ UNCHANGED <<cacheVars, ctxDone, w, platformVars, tp, testCounter, results,
                   run, report, ct, auxVars>>

\* The verification Get returns, and the function with it.
TrialVerify ==
    /\ t.fn # "none" /\ t.pc = "verify"
    /\ \E read \in GetOutcomes(t.result.Value) :
        LET error == VerificationError(t.fn, read, t.result.Value) IN
        IF error # ""
        THEN t' = [t EXCEPT !.pc = "return",
                            !.result.Error = [phase |-> error, cause |-> read.kind],
                            !.result.verifyRead = ReadKind(read, t.result.Value)]
        ELSE t' = [t EXCEPT !.pc = "return",
                            !.result.Success = TRUE,
                            !.result.verifyRead = ReadKind(read, t.result.Value)]
    /\ UNCHANGED <<cacheVars, ctxDone, w, platformVars, tp, testCounter, results,
                   run, report, ct, auxVars>>

(***************************************************************************)
(* The run loops and the reports                                           *)
(*                                                                         *)
(* run is the frame of runPrecisionFailoverTests (mode "precision") or of  *)
(* runComprehensiveFailoverTests (mode "comprehensive"):                   *)
(*   entry   the index of the current (scenario, delay) entry;             *)
(*   half    "immediate" or "postRecovery": the trial of the entry that    *)
(*           comes next in comprehensive mode;                             *)
(*   pc      "loop", "trial" (a trial function runs), "done";              *)
(*   totalTests, successfulTests   its counters.                           *)
(***************************************************************************)

\* The trial function has returned: the result is appended and counted.
RunRecord ==
    /\ run.pc = "trial"
    /\ t.fn # "none" /\ t.pc = "return"
    /\ results' = Append(results, t.result)
    /\ run' = [run EXCEPT
                !.pc = "loop",
                !.totalTests = @ + 1,
                !.successfulTests = IF t.result.Success THEN @ + 1 ELSE @,
                !.half = IF run.mode = "comprehensive" /\ run.half = "immediate"
                         THEN "postRecovery" ELSE "immediate",
                !.entry = IF run.mode = "comprehensive" /\ run.half = "immediate"
                          THEN @ ELSE @ + 1]
    /\ t' = NoTrial
    /\ UNCHANGED <<cacheVars, ctxDone, w, platformVars, tp, testCounter, report, ct, auxVars>>

ScenariosRun == {results[i].Scenario : i \in 1..Len(results)}

ModesRun(s) == {results[i].ReadMode : i \in {j \in 1..Len(results) : results[j].Scenario = s}}

\* generateDetailedReport: the counts of the SCENARIO_SUMMARY lines.
DetailedReport ==
    [kind |-> "detailed",
     scenarioStats |->
        [s \in ScenariosRun |->
            [total |-> Cardinality({i \in DOMAIN results : results[i].Scenario = s}),
             success |-> Cardinality({i \in DOMAIN results : results[i].Scenario = s /\ results[i].Success})]]]

\* generateEnhancedReport: the counts of the scenario comparison summary
\* and of the read mode analysis.
EnhancedReport ==
    [kind |-> "enhanced",
     scenarioModeStats |->
        [s \in ScenariosRun |->
            [m \in ModesRun(s) |->
                [total |-> Cardinality({i \in DOMAIN results : results[i].Scenario = s /\ results[i].ReadMode = m}),
                 success |-> Cardinality({i \in DOMAIN results : results[i].Scenario = s /\ results[i].ReadMode = m
                                              /\ results[i].Success}),
                 immediateReadTotal |->
                    Cardinality({i \in DOMAIN results : results[i].Scenario = s /\ results[i].ReadMode = m
                                     /\ results[i].ReadMode = "ImmediateRead"}),
                 immediateReadSuccess |->
                    Cardinality({i \in DOMAIN results : results[i].Scenario = s /\ results[i].ReadMode = m
                                     /\ results[i].ReadMode = "ImmediateRead"
                                     /\ results[i].ImmediateReadErr = ""})]]],
     immediateReadTests |-> Cardinality({i \in DOMAIN results : results[i].ReadMode = "ImmediateRead"}),
     immediateReadSuccess |-> Cardinality({i \in DOMAIN results : results[i].ReadMode = "ImmediateRead" /\ results[i].Success}),
     immediateDataSuccess |-> Cardinality({i \in DOMAIN results : results[i].ReadMode = "ImmediateRead"
                                              /\ results[i].ImmediateReadErr = ""}),
     postRecoveryTests |-> Cardinality({i \in DOMAIN results : results[i].ReadMode # "ImmediateRead"}),
     postRecoverySuccess |-> Cardinality({i \in DOMAIN results : results[i].ReadMode # "ImmediateRead" /\ results[i].Success})]

NoReport == [kind |-> "none"]

\* The loops are over: the report is generated.
RunReport ==
    /\ run.pc = "loop"
    /\ run.entry > Len(Entries)
    /\ report' = IF run.mode = "precision" THEN DetailedReport ELSE EnhancedReport
    /\ run' = [run EXCEPT !.pc = "done"]
    /\ UNCHANGED <<cacheVars, ctxDone, w, platformVars, tp, testCounter, results, t, ct, auxVars>>

NoRun ==
    [mode |-> "none", pc |-> "done", entry |-> 0, half |-> "immediate",
     totalTests |-> 0, successfulTests |-> 0]

(***************************************************************************)
(* The concurrency test: linearizabilityTest and writeDurabilityTest       *)
(*                                                                         *)
(* ct is the ConcurrencyTest with its ConsistencyTracker and the frame of  *)
(* the running test function:                                              *)
(*   pc          "lin" / "dur": runConcurrencyTests is about to call       *)
(*               linearizabilityTest / writeDurabilityTest;                *)
(*               "linClients" / "durClients": the client goroutines run    *)
(*               and the test function is in wg.Wait();                    *)
(*               "done": both test functions have returned;                *)
(*               "reported": generateFinalReport has run;                  *)
(*   finalReport the flags generateFinalReport has logged;                 *)
(*   j           for each client goroutine, its loop variable;             *)
(*   joined      the client goroutines that have called wg.Done();         *)
(*   clientSequence   for each client goroutine, its local slice;          *)
(*   expectedLastValues   the local slice of linearizabilityTest;          *)
(*   linCheck, durCheck   the "linearizability-check" / "durability-check" *)
(*               record written to the CSV file and the log;               *)
(*   linRead, durRead     history: what the final Get returned;            *)
(*   returnedError        the test functions that returned an error.       *)
(*   log         the write lines of the log file, as a set;                *)
(*   puts        history: for each client goroutine of the running test,   *)
(*               the outcomes of the Puts that have returned, in order.    *)
(* Strings are modelled by their fields: "client-1-seq-2" is               *)
(* <<"client", 1, "seq", 2>>, and "" is <<>>.                              *)
(***************************************************************************)

MaxClients == 2

MaxOps == 2

\* The most writes (clients times operations) of a test.
MaxWrites == 4

EmptyString == <<>>

\* fmt.Sprintf("%s-seq-%d", clientID, j) with clientID "client-<i>"
SequenceValue(i, j) == <<"client", i, "seq", j>>

\* fmt.Sprintf("%s-write-%d-%d", clientID, j, time.Now().UnixNano()) with
\* clientID "durability-client-<i>": the time makes the value of every write
\* differ from all others, as i and j do here.
WriteValue(i, j) == <<"durability-client", i, "write", j>>

\* A value that no client writes.
UnwrittenValue == <<"client", 0, "seq", 0>>

Clients == 1..ct.concurrentClients

NoCheck == [written |-> FALSE, value |-> EmptyString, success |-> FALSE,
            expected |-> <<>>]

NoRead == [kind |-> "none", value |-> EmptyString]

\* No final report has been written.
NoFinalReport ==
    [written |-> FALSE, linearizable |-> FALSE, writeDurability |-> FALSE,
     allPassed |-> FALSE]

\* NewConcurrencyTest, with the configured numbers of clients and operations.
NewConcurrencyTestState(clients, ops) ==
    [pc |-> "lin", concurrentClients |-> clients, operationsPerClient |-> ops,
     j |-> [i \in 1..clients |-> 1],
     joined |-> {},
     clientSequence |-> [i \in 1..clients |-> <<>>],
     clientSequences |-> <<>>,
     expectedLastValues |-> <<>>,
     finalValue |-> EmptyString,
     linearizable |-> TRUE, writeDurability |-> TRUE,
     acknowledgedWrites |-> <<>>,
     linCheck |-> NoCheck, durCheck |-> NoCheck,
     linRead |-> NoRead, durRead |-> NoRead,
     returnedError |-> {},
     log |-> {},
     puts |-> [i \in 1..clients |-> <<>>],
     finalReport |-> NoFinalReport]

NoConcurrencyTest == [NewConcurrencyTestState(0, 0) EXCEPT !.pc = "none"]

\* What the final Get of a test can return: an error, no entry, or an entry
\* with any value.
FinalReads(values) ==
    {[kind |-> "error", value |-> EmptyString], [kind |-> "nil", value |-> EmptyString]}
    \cup {[kind |-> "entry", value |-> v] : v \in values \cup {EmptyString, UnwrittenValue}}

\* Mutant of ExpectedLastValue: the first value of the sequence is kept.
ExpectedFirstValue(clientSequence, old) ==
    IF Len(clientSequence) > 0 THEN clientSequence[1] ELSE old

\* if len(clientSequence) > 0 { expectedLastValues[clientIndex] =
\*     clientSequence[len(clientSequence)-1] }
ExpectedLastValue(clientSequence, old) ==
    IF Len(clientSequence) > 0 THEN clientSequence[Len(clientSequence)] ELSE old

\* The loop over expectedLastValues that sets isValidLastWrite.
IsValidLastWrite(finalValue, expectedLastValues) ==
    \E k \in 1..Len(expectedLastValues) : finalValue = expectedLastValues[k]

\* Mutant of ValueMatched: the Success flag of a write is not looked at.
ValueMatchedAnyWrite(acknowledgedWrites, finalValue) ==
    \E k \in 1..Len(acknowledgedWrites) : acknowledgedWrites[k].Value = finalValue

\* The loop over acknowledgedWrites that sets valueMatched.
ValueMatched(acknowledgedWrites, finalValue) ==
    \E k \in 1..Len(acknowledgedWrites) :
        acknowledgedWrites[k].Success /\ acknowledgedWrites[k].Value = finalValue

\* Mutant of WaitReturns: the test function does not wait for the clients.
WaitReturnsAtOnce(joined) == TRUE

\* wg.Wait() returns when every client goroutine has called wg.Done().
WaitReturns(joined) == joined = Clients

\* Mutant of PutSucceeded: every Put counts as successful.
PutSucceededAlways(outcome) == TRUE

\* err == nil after testMap.Put
PutSucceeded(outcome) == outcome = "ok"

\* The line a client writes to the log after a Put: ..._WRITE_SUCCESS or
\* ..._WRITE_ERROR (..._SUCCESS or ..._ERROR in the durability test) with the
\* client and the value.
WriteLogged(test, i, value, outcome) ==
    [test |-> test, client |-> i, value |-> value, success |-> PutSucceeded(outcome)]

\* Mutant of FinalReadRejected: only a read error ends the check.
FinalReadRejectedOnError(read) == read.kind = "error"

\* if err != nil { ... = false; return nil }; if entry == nil { ... = false;
\* return nil }
FinalReadRejected(read) == read.kind = "error" \/ read.kind = "nil"

notConcurrency ==
    <<cacheVars, ctxDone, w, platformVars, tp, runVars, auxVars>>

\* linearizabilityTest is called: the map is obtained and the client
\* goroutines are started, or the function returns the error.
LinStart ==
    /\ ct.pc = "lin"
    /\ \E mapOk \in BOOLEAN :
        IF ~mapOk
        THEN ct' = [ct EXCEPT !.pc = "dur", !.returnedError = @ \cup {"Linearizability"}]
        ELSE ct' = [ct EXCEPT !.pc = "linClients",
                              !.expectedLastValues =
                                  [i \in 1..ct.concurrentClients |-> EmptyString],
                              !.j = [i \in Clients |-> 1],
                              !.clientSequence = [i \in Clients |-> <<>>],
                              !.joined = {}]
    /\ UNCHANGED notConcurrency

\* One iteration of a linearizability client's loop: the Put returns, with
\* or without an error.
LinClientPut(i) ==
    /\ ct.pc = "linClients"
    /\ i \notin ct.joined
    /\ ct.j[i] <= ct.operationsPerClient
    /\ \E outcome \in {"ok", "error"} :
        ct' = [ct EXCEPT !.clientSequence[i] = Append(@, SequenceValue(i, ct.j[i])),
                         !.puts[i] = Append(@, outcome),
                         !.log = @ \cup {WriteLogged("Linearizability", i,
                                                     SequenceValue(i, ct.j[i]), outcome)},
                         !.j[i] = @ + 1]
    /\ UNCHANGED notConcurrency

\* After its loop a linearizability client stores its sequence and its last
\* value, under sequenceMux, and calls wg.Done().
LinClientStore(i) ==
    /\ ct.pc = "linClients"
    /\ i \notin ct.joined
    /\ ct.j[i] > ct.operationsPerClient
    /\ ct' = [ct EXCEPT
                !.clientSequences =
                    [c \in DOMAIN ct.clientSequences \cup {i} |->
                        IF c = i THEN ct.clientSequence[i] ELSE ct.clientSequences[c]],
                !.expectedLastValues[i] = ExpectedLastValue(ct.clientSequence[i], @),
                !.joined = @ \cup {i}]
    /\ UNCHANGED notConcurrency

\* wg.Wait() has returned: the final Get and the verdict.
LinFinalRead ==
    /\ ct.pc = "linClients"
    /\ WaitReturns(ct.joined)
    /\ \E read \in FinalReads({SequenceValue(i, j) :
                                 i \in Clients, j \in 1..ct.operationsPerClient}) :
        IF FinalReadRejected(read)
        THEN ct' = [ct EXCEPT !.pc = "dur", !.linearizable = FALSE, !.linRead = read]
        ELSE IF IsValidLastWrite(read.value, ct.expectedLastValues)
        THEN ct' = [ct EXCEPT !.pc = "dur", !.finalValue = read.value,
                              !.linRead = read,
                              !.linCheck = [written |-> TRUE, value |-> read.value,
                                            success |-> TRUE, expected |-> <<>>]]
        ELSE ct' = [ct EXCEPT !.pc = "dur", !.finalValue = read.value,
                              !.linRead = read,
                              !.linearizable = FALSE,
                              !.linCheck = [written |-> TRUE, value |-> read.value,
                                            success |-> FALSE,
                                            expected |-> ct.expectedLastValues]]
    /\ UNCHANGED notConcurrency

\* writeDurabilityTest is called.
DurStart ==
    /\ ct.pc = "dur"
    /\ \E mapOk \in BOOLEAN :
        IF ~mapOk
        THEN ct' = [ct EXCEPT !.pc = "done", !.returnedError = @ \cup {"Write Durability"}]
        ELSE ct' = [ct EXCEPT !.pc = "durClients",
                              !.j = [i \in Clients |-> 1],
                              !.puts = [i \in Clients |-> <<>>],
                              !.joined = {i \in Clients : ct.operationsPerClient < 1}]
    /\ UNCHANGED notConcurrency

\* One iteration of a durability client's loop: the Put returns and the
\* write is appended, under durabilityMux, with Success = (err == nil); after
\* the last iteration the goroutine calls wg.Done().
DurClientPut(i) ==
    /\ ct.pc = "durClients"
    /\ i \notin ct.joined
    /\ ct.j[i] <= ct.operationsPerClient
    /\ \E outcome \in {"ok", "error"} :
        ct' = [ct EXCEPT
                !.acknowledgedWrites =
                    Append(@, [ClientID |-> i, Value |-> WriteValue(i, ct.j[i]),
                               Success |-> PutSucceeded(outcome)]),
                !.puts[i] = Append(@, outcome),
                !.log = @ \cup {WriteLogged("WriteDurability", i,
                                            WriteValue(i, ct.j[i]), outcome)},
                !.j[i] = @ + 1,
                !.joined = IF ct.j[i] + 1 > ct.operationsPerClient
                           THEN @ \cup {i} ELSE @]
    /\ UNCHANGED notConcurrency

\* wg.Wait() has returned: the final Get and the verdict.
DurFinalRead ==
    /\ ct.pc = "durClients"
    /\ WaitReturns(ct.joined)
    /\ \E read \in FinalReads({WriteValue(i, j) :
                                 i \in Clients, j \in 1..ct.operationsPerClient}) :
        IF FinalReadRejected(read)
        THEN ct' = [ct EXCEPT !.pc = "done", !.writeDurability = FALSE,
                              !.durRead = read]
        ELSE IF ValueMatched(ct.acknowledgedWrites, read.value)
        THEN ct' = [ct EXCEPT !.pc = "done", !.durRead = read,
                              !.durCheck = [written |-> TRUE, value |-> read.value,
                                            success |-> TRUE, expected |-> <<>>]]
        ELSE ct' = [ct EXCEPT !.pc = "done", !.durRead = read,
                              !.writeDurability = FALSE,
                              !.durCheck = [written |-> TRUE, value |-> read.value,
                                            success |-> FALSE, expected |-> <<>>]]
    /\ UNCHANGED notConcurrency

\* generateFinalReport: the LINEARIZABILITY, WRITE_DURABILITY and
\* OVERALL_RESULT lines, from the two flags of the tracker.
GenerateFinalReport ==
    /\ ct.pc = "done"
    /\ ct' = [ct EXCEPT !.pc = "reported",
                        !.finalReport =
                            [written |-> TRUE,
                             linearizable |-> ct.linearizable,
                             writeDurability |-> ct.writeDurability,
                             allPassed |-> ct.linearizable /\ ct.writeDurability]]
    /\ UNCHANGED notConcurrency

(***************************************************************************)
(* updateLeaderInfo as a whole                                             *)
(*                                                                         *)
(* rf is the frame of a direct call of updateLeaderInfo:                   *)
(*   pc        "call", "done" (returned), "panic" (the loop panicked);     *)
(*   response  the items the list query returns if it succeeds;            *)
(*   before    history: the leader cache when the call started;            *)
(*   err       the call returned the "failed to list RaftGroups" error.    *)
(***************************************************************************)

NoRefresh == [pc |-> "none", response |-> <<>>, before |-> <<>>, err |-> FALSE]

\* updateLeaderInfo(ctx): the list query fails and the error is returned, or
\* it succeeds and the loop runs over the items (up to a panic).
RefreshCall ==
    /\ rf.pc = "call"
    /\ \E listOk \in BOOLEAN :
        IF ~listOk
        THEN /\ rf' = [rf EXCEPT !.pc = "done", !.err = TRUE]
             /\ UNCHANGED cacheVars
        ELSE /\ leaderCache' = ProcessItems(leaderCache, rf.response)
             /\ polledSinceWrite' = TRUE
             /\ rf' = [rf EXCEPT !.pc = IF UpdatePanics(rf.response)
                                        THEN "panic" ELSE "done"]
    /\ UNCHANGED <<ctxDone, w, platformVars, tp, runVars, ct, an, lk, ar, cn, wl, em, re, hb>>

(***************************************************************************)
(* The log analyzer: detectSequenceGaps                                    *)
(*                                                                         *)
(* an is the frame of a call of detectSequenceGaps:                        *)
(*   pc      "call", "done";                                               *)
(*   n       history: the writer issued seq-1 .. seq-n;                    *)
(*   writes  the WriteOperation records (SeqNum, Success), in the order    *)
(*           they are supplied;                                            *)
(*   gaps    the returned list;                                            *)
(*   reads   the ReadOperation records given to generateAnalysis;          *)
(*   result  the AnalysisResult it returns.                                *)
(***************************************************************************)

\* LatencyStats{}
NoLatencyStats == [Min |-> 0, Max |-> 0, Mean |-> 0, Median |-> 0, P95 |-> 0, P99 |-> 0]

NoAnalysisResult ==
    [TotalReads |-> 0, SuccessfulReads |-> 0, FailedReads |-> 0,
     InconsistentReads |-> 0, ReadSuccessRate |-> 0, ConsistencyRate |-> 0,
     ReadLatency |-> NoLatencyStats]

NoAnalysis ==
    [pc |-> "none", n |-> 0, writes |-> <<>>, gaps |-> <<>>, reads |-> <<>>,
     result |-> NoAnalysisResult]

\* for _, write := range writes { if write.Success { seqNums = append(...) } }
RECURSIVE SuccessSeqNums(_)
SuccessSeqNums(writes) ==
    IF writes = <<>> THEN <<>>
    ELSE IF Head(writes).Success
         THEN <<Head(writes).SeqNum>> \o SuccessSeqNums(Tail(writes))
         ELSE SuccessSeqNums(Tail(writes))

RECURSIVE InsertSorted(_, _)
InsertSorted(x, s) ==
    IF s = <<>> THEN <<x>>
    ELSE IF x <= Head(s) THEN <<x>> \o s
    ELSE <<Head(s)>> \o InsertSorted(x, Tail(s))

\* sort.Ints(seqNums)
RECURSIVE SortInts(_)
SortInts(s) == IF s = <<>> THEN <<>> ELSE InsertSorted(Head(s), SortInts(Tail(s)))

\* for gap := seqNums[i-1] + 1; gap < seqNums[i]; gap++ { gaps = append(gaps, gap) }
GapsBetween(a, b) == [k \in 1..(IF b - a > 1 THEN b - a - 1 ELSE 0) |-> a + k]

\* for i := 1; i < len(seqNums); i++ { ... }, from the pair that ends at the
\* (1-based) position i
RECURSIVE GapsFrom(_, _)
GapsFrom(seqNums, i) ==
    IF i > Len(seqNums) THEN <<>>
    ELSE GapsBetween(seqNums[i - 1], seqNums[i]) \o GapsFrom(seqNums, i + 1)

\* Mutant of detectSequenceGaps: the numbers stay in the order of the records.
detectSequenceGapsUnsorted(writes) == GapsFrom(SuccessSeqNums(writes), 2)

detectSequenceGaps(writes) == GapsFrom(SortInts(SuccessSeqNums(writes)), 2)

\* result.WriteGaps = la.detectSequenceGaps(writes)
DetectCall ==
    /\ an.pc = "call"
    /\ an' = [an EXCEPT !.pc = "done", !.gaps = detectSequenceGaps(an.writes)]
    /\ UNCHANGED <<cacheVars, ctxDone, w, platformVars, tp, runVars, ct, rf, lk, ar, cn, wl, em, re, hb>>

(***************************************************************************)
(* The log analyzer: the reads, from the reader's log line to the rates    *)
(* and latencies of generateAnalysis                                       *)
(*                                                                         *)
(* The frame an, with pc "analysis", the reads the reader logged (what its *)
(* Get returned and how long it took) and the result of generateAnalysis.  *)
(***************************************************************************)

MaxReads == 3

MaxDuration == 3

\* The line continuousReader logs for a Get that returned an error, no entry,
\* another value than expected, or the expected value: the tag, the text
\* after " -> " and the text after "expected".
ReaderLogLine(kind) ==
    CASE kind = "error" -> [tag |-> "FAILED", arrow |-> "", expected |-> ""]
      [] kind = "nil" -> [tag |-> "FAILED", arrow |-> "key not found", expected |-> ""]
      [] kind = "mismatch" -> [tag |-> "INCONSISTENT", arrow |-> "got", expected |-> "value"]
      [] kind = "match" -> [tag |-> "SUCCESS", arrow |-> "value", expected |-> ""]

\* parseRead and parseInconsistentRead; kind is a history field.
parseRead(kind, duration) ==
    LET line == ReaderLogLine(kind) IN
    IF line.tag = "INCONSISTENT"
    THEN [Value |-> line.arrow, Duration |-> duration, Success |-> FALSE,
          Expected |-> line.expected, kind |-> kind]
    ELSE [Value |-> line.arrow, Duration |-> duration,
          Success |-> line.tag = "SUCCESS", Expected |-> "", kind |-> kind]

RECURSIVE SumOf(_)
SumOf(s) == IF s = <<>> THEN 0 ELSE Head(s) + SumOf(Tail(s))

\* calculateLatencyStats, without StdDev; indices are 0-based in the code.
calculateLatencyStats(durations) ==
    IF Len(durations) = 0 THEN NoLatencyStats
    ELSE LET sorted == SortInts(durations)
             n == Len(sorted)
             p95Index == (95 * n) \div 100
             p99Index == (99 * n) \div 100
         IN [Min |-> sorted[1],
             Max |-> sorted[n],
             Mean |-> SumOf(sorted) \div n,
             Median |-> sorted[(n \div 2) + 1],
             P95 |-> IF n > 1 THEN sorted[p95Index + 1] ELSE 0,
             P99 |-> IF n > 1 THEN sorted[p99Index + 1] ELSE 0]

\* generateAnalysis, the part about the reads; the rates are whole percents,
\* rounded down.
generateAnalysis(reads) ==
    LET total == Len(reads)
        successfulReads == Cardinality({k \in 1..total : reads[k].Success})
        failedReads == Cardinality({k \in 1..total : ~reads[k].Success})
        inconsistentReads ==
            Cardinality({k \in 1..total : ~reads[k].Success /\ reads[k].Expected # ""})
    IN [TotalReads |-> total,
        SuccessfulReads |-> successfulReads,
        FailedReads |-> failedReads,
        InconsistentReads |-> inconsistentReads,
        ReadSuccessRate |-> IF total > 0 THEN (successfulReads * 100) \div total ELSE 0,
        ConsistencyRate |-> IF total > 0
                            THEN ((total - inconsistentReads) * 100) \div total ELSE 0,
        ReadLatency |-> IF total > 0
                        THEN calculateLatencyStats([k \in 1..total |-> reads[k].Duration])
                        ELSE NoLatencyStats]

\* AnalyzeLog of the log analyzer: the lines are parsed and analysed.
AnalysisCall ==
    /\ an.pc = "analysis"
    /\ an' = [an EXCEPT !.pc = "done", !.result = generateAnalysis(an.reads)]
    /\ UNCHANGED <<cacheVars, ctxDone, w, platformVars, tp, runVars, ct, rf, lk, ar, cn, wl, em, re, hb>>

(***************************************************************************)
(* leaderMux: updateLeaderInfo against concurrent getLeaderForPartition    *)
(*                                                                         *)
(* lk holds the read-write lock and the callers' frames:                   *)
(*   writer, readers  leaderMux: held for writing, number of read holders; *)
(*   upd    the refreshing goroutine: pc "idle", "lock" (list returned,    *)
(*          waiting for Lock), "loop" (in the loop, lock held), the items, *)
(*          field: the next field of the cache entry to store (an entry is *)
(*          stored field by field, a struct assignment is not atomic);     *)
(*   rd     per reader: pc "idle", "locked" (holds RLock), "done"          *)
(*          (returned), the copy it returned and whether an entry existed; *)
(*   refreshes  number of refreshes started;                               *)
(*   stamp  history: the refresh that stored each field of the entry;      *)
(*   wrote  history: the entry each refresh stored;                        *)
(*   rd[r].stamp  history: the stamps of the fields the reader copied.     *)
(***************************************************************************)

MaxRefreshes == 2

Readers == {1, 2}

EntryFields == <<"PodName", "Term", "State">>

NoStamp == [PodName |-> 0, Term |-> 0, State |-> 0]

NoReader == [pc |-> "idle", leader |-> ZeroLeaderInfo, exists |-> FALSE, stamp |-> NoStamp]

NoLock ==
    [writer |-> FALSE, readers |-> 0,
     upd |-> [pc |-> "none", items |-> <<>>, field |-> 1],
     rd |-> [r \in Readers |-> NoReader],
     refreshes |-> 0, stamp |-> NoStamp, wrote |-> <<>>]

\* sync.RWMutex: RLock is granted while no writer holds the lock.
CanRLockAnytime(l) == TRUE

CanRLock(l) == ~l.writer

\* sync.RWMutex: Lock is granted while nobody holds the lock.
CanLock(l) == ~l.writer /\ l.readers = 0

\* The partition the readers ask for and the refreshes report.
LockPartition == 0

\* What a list query reports about the partition.
LockItems ==
    {Item(GroupName(Itoa(LockPartition)), TRUE, FALSE, FALSE, <<>>, FALSE, 0, FALSE, ""),
     Item(GroupName(Itoa(LockPartition)), TRUE, TRUE, TRUE, PodA, TRUE, 1, TRUE, "Ready"),
     Item(GroupName(Itoa(LockPartition)), TRUE, TRUE, TRUE, PodB, TRUE, MaxTerm, TRUE, "Ready"),
     Item(GroupName(Itoa(LockPartition)), TRUE, TRUE, FALSE, <<>>, FALSE, 0, FALSE, "")}

\* updateLeaderInfo: the list query returns (with an error: the call ends).
UpdList ==
    /\ lk.upd.pc = "idle"
    /\ lk.refreshes < MaxRefreshes
    /\ \/ lk' = [lk EXCEPT !.refreshes = @ + 1, !.wrote = Append(@, ZeroLeaderInfo)]
       \/ \E item \in LockItems :
            lk' = [lk EXCEPT !.upd = [pc |-> "lock", items |-> <<item>>, field |-> 1],
                             !.refreshes = @ + 1]
    /\ UNCHANGED <<cacheVars, ctxDone, w, platformVars, tp, runVars, ct, rf, an, ar, cn, wl, em, re, hb>>

\* eft.leaderMux.Lock()
UpdLock ==
    /\ lk.upd.pc = "lock"
    /\ CanLock(lk)
    /\ lk' = [lk EXCEPT !.writer = TRUE, !.upd.pc = "loop"]
    /\ UNCHANGED <<cacheVars, ctxDone, w, platformVars, tp, runVars, ct, rf, an, ar, cn, wl, em, re, hb>>

\* One store of the loop body: the next field of the item's cache entry.  An
\* item the loop skips stores nothing.
UpdStore ==
    /\ lk.upd.pc = "loop"
    /\ lk.upd.items # <<>>
    /\ LET item == Head(lk.upd.items)
           target == ProcessItem(leaderCache, item)
           skipped == ~item.hasStatus \/ (item.hasLeader /\ ~item.hasName)
           f == EntryFields[lk.upd.field]
           old == IF LockPartition \in DOMAIN leaderCache
                  THEN leaderCache[LockPartition]
                  ELSE [ZeroLeaderInfo EXCEPT !.PartitionID = LockPartition]
           new == target[LockPartition]
           entry == IF f = "PodName"
                    THEN [old EXCEPT !.PodName = new.PodName, !.PodIndex = new.PodIndex]
                    ELSE IF f = "Term" THEN [old EXCEPT !.Term = new.Term]
                    ELSE [old EXCEPT !.State = new.State]
           last == lk.upd.field = Len(EntryFields)
       IN IF skipped
          THEN /\ lk' = [lk EXCEPT !.upd.items = Tail(@)]
               /\ UNCHANGED leaderCache
          ELSE /\ leaderCache' = CachePut(leaderCache, LockPartition, entry)
               /\ lk' = [lk EXCEPT !.stamp[f] = lk.refreshes,
                                   !.upd.field = IF last THEN 1 ELSE @ + 1,
                                   !.upd.items = IF last THEN Tail(@) ELSE @,
                                   !.wrote = IF last THEN Append(@, entry) ELSE @]
    /\ UNCHANGED <<polledSinceWrite, ctxDone, w, platformVars, tp, runVars, ct, rf, an, ar, cn, wl, em, re, hb>>

\* return nil, with the deferred eft.leaderMux.Unlock()
UpdUnlock ==
    /\ lk.upd.pc = "loop"
    /\ lk.upd.items = <<>>
    /\ lk' = [lk EXCEPT !.writer = FALSE, !.upd.pc = "idle",
                        !.wrote = IF Len(@) < lk.refreshes
                                  THEN Append(@, ZeroLeaderInfo) ELSE @]
    /\ UNCHANGED <<cacheVars, ctxDone, w, platformVars, tp, runVars, ct, rf, an, ar, cn, wl, em, re, hb>>

\* getLeaderForPartition: eft.leaderMux.RLock()
GetRLock(r) ==
    /\ lk.rd[r].pc \in {"idle", "done"}
    /\ CanRLock(lk)
    /\ lk' = [lk EXCEPT !.readers = @ + 1, !.rd[r] = [NoReader EXCEPT !.pc = "locked"]]
    /\ UNCHANGED <<cacheVars, ctxDone, w, platformVars, tp, runVars, ct, rf, an, ar, cn, wl, em, re, hb>>

\* leader, exists := eft.leaderCache[partitionID]; return, with the deferred
\* eft.leaderMux.RUnlock().  The caller holds a copy of the entry.
GetReturn(r) ==
    /\ lk.rd[r].pc = "locked"
    /\ LET got == GetLeaderForPartition(leaderCache, LockPartition)
       IN lk' = [lk EXCEPT !.readers = @ - 1,
                           !.rd[r] = [pc |-> "done", leader |-> got.info,
                                      exists |-> got.exists,
                                      stamp |-> IF got.exists THEN lk.stamp ELSE NoStamp]]
    /\ UNCHANGED <<cacheVars, ctxDone, w, platformVars, tp, runVars, ct, rf, an, ar, cn, wl, em, re, hb>>

(***************************************************************************)
(* analyze-results: the report computed from the log file of a run         *)
(*                                                                         *)
(* ar is the analysis of the finished run's log: pc "none" or "done", and  *)
(* the ScenarioStats (TotalTests, Successful) of each scenario.            *)
(***************************************************************************)

NoAnalyzeResults == [pc |-> "none", stats |-> <<>>]

\* parseLogFile: a TestResult is made at a PRECISION_TEST_START line (only
\* executePrecisionFailoverTest writes one) and appended to the results at
\* the PRECISION_SUCCESS line of the same test, with Success = true.
RECURSIVE parseLogFile(_)
parseLogFile(trials) ==
    IF trials = <<>> THEN <<>>
    ELSE LET r == Head(trials) IN
         (IF r.ReadMode = "PostRecoveryRead" /\ r.Success
          THEN <<[TestID |-> r.TestID, Scenario |-> r.Scenario, Success |-> TRUE]>>
          ELSE <<>>) \o parseLogFile(Tail(trials))

\* analyzeResults: the results grouped by scenario, with TotalTests =
\* len(testResults) and Successful = the number with Success.
analyzeResults(parsed) ==
    [s \in {parsed[i].Scenario : i \in 1..Len(parsed)} |->
        [TotalTests |-> Cardinality({i \in 1..Len(parsed) : parsed[i].Scenario = s}),
         Successful |-> Cardinality({i \in 1..Len(parsed) :
                                        parsed[i].Scenario = s /\ parsed[i].Success})]]

\* main of analyze-results, run on the log of the finished run.
AnalyzeLog ==
    /\ run.mode # "none" /\ run.pc = "done"
    /\ ar.pc = "none"
    /\ ar' = [pc |-> "done", stats |-> analyzeResults(parseLogFile(results))]
    /\ UNCHANGED <<cacheVars, ctxDone, w, platformVars, tp, runVars, ct, rf, an, lk, cn, wl, em, re, hb>>

(***************************************************************************)
(* The initial connectivity test of the three harnesses                    *)
(*                                                                         *)
(* cn is the frame of the harness up to the start of its workload:         *)
(*   harness  "experiment-3" (runTest), "concurrency" (runConcurrencyTests)*)
(*            or "failover" (main of the enhanced failover test);          *)
(*   config   the workload it is configured for;                           *)
(*   pc       "put", "get", "workload" (the workload has been started),    *)
(*            "exit" (the harness has returned the error or exited);       *)
(*   value    initialValue, "initialized-<unix time>";                     *)
(*   put, read  history: the outcome of the Put and what the Get returned. *)
(***************************************************************************)

MaxTime == 2

InitialValue(time) == <<"initialized", time>>

NoConnectivity ==
    [harness |-> "none", config |-> <<>>, pc |-> "none", value |-> <<>>,
     put |-> "none", read |-> NoRead]

\* The Get of the initial key returns an error, no entry, or an entry with
\* the value of this or of an earlier start of the harness.
InitialReads ==
    {[kind |-> "error", value |-> EmptyString], [kind |-> "nil", value |-> EmptyString]}
    \cup {[kind |-> "entry", value |-> InitialValue(time)] : time \in 0..MaxTime}

\* Mutant of InitialReadFails: the value of the entry is not compared.
InitialReadFailsOnNoEntry(harness, read, value) ==
    read.kind = "error" \/ read.kind = "nil"

\* runTest: if err != nil {return}; if entry == nil {return};
\*          if entry.Value != initialValue {return}
\* runConcurrencyTests, main: if err != nil || entry == nil ||
\*          entry.Value != initialValue {return / os.Exit(1)}
InitialReadFails(harness, read, value) ==
    IF harness = "experiment-3"
    THEN IF read.kind = "error" THEN TRUE
         ELSE IF read.kind = "nil" THEN TRUE
         ELSE read.value # value
    ELSE read.kind = "error" \/ read.kind = "nil" \/ read.value # value

\* testMap.Put(ctx, initialKey, initialValue) returns.
ConnectPut ==
    /\ cn.pc = "put"
    /\ \E outcome \in {"ok", "error"} :
        cn' = [cn EXCEPT !.put = outcome,
                         !.pc = IF outcome = "ok" THEN "get" ELSE "exit"]
    /\ UNCHANGED <<cacheVars, ctxDone, w, platformVars, tp, runVars, ct, rf, an, lk, ar, wl, em, re, hb>>

\* testMap.Get(ctx, initialKey) returns; the harness leaves, or goes on to
\* its workload: runPrecisionFailoverTests or runComprehensiveFailoverTests,
\* the two concurrency tests, or the writer, reader and monitor goroutines.
ConnectGet ==
    /\ cn.pc = "get"
    /\ \E read \in InitialReads :
        IF InitialReadFails(cn.harness, read, cn.value)
        THEN /\ cn' = [cn EXCEPT !.read = read, !.pc = "exit"]
             /\ UNCHANGED <<run, ct>>
        ELSE /\ cn' = [cn EXCEPT !.read = read, !.pc = "workload"]
             /\ run' = IF cn.harness = "failover"
                       THEN [mode |-> cn.config, pc |-> "loop", entry |-> 1,
                             half |-> "immediate", totalTests |-> 0,
                             successfulTests |-> 0]
                       ELSE run
             /\ ct' = IF cn.harness = "concurrency"
                      THEN NewConcurrencyTestState(cn.config[1], cn.config[2])
                      ELSE ct
    /\ UNCHANGED <<cacheVars, ctxDone, w, platformVars, tp, testCounter, results, t,
                   report, rf, an, lk, ar, wl, em, re, hb>>

(***************************************************************************)
(* The continuous writer and reader of the failover test (experiment 3)    *)
(*                                                                         *)
(* wl holds ft.writeSeq, ft.writeLog (the sequence numbers of its keys),   *)
(* ft.writeLogMux and the two goroutines:                                  *)
(*   locked, rlocked   the writer holds the lock / the reader holds the    *)
(*             read lock;                                                  *)
(*   wpc       "select", "put" (the Put is in flight), "lock" (waits for   *)
(*             Lock), "insert" (executes ft.writeLog[key] = value),        *)
(*             "done" (returned);                                          *)
(*   rpc       "select", "collect" (reads len and ranges over the map),    *)
(*             "getmap", "lookup" (executes ft.writeLog[recentKey]),       *)
(*             "get" (the Get is in flight), "fatal" (the runtime has      *)
(*             stopped the process: concurrent map read and map write),    *)
(*             "done";                                                     *)
(*   keys, recentKey   the reader's locals.                                *)
(***************************************************************************)

MaxSeq == 4

NoWriteLog ==
    [wpc |-> "none", rpc |-> "none", writeSeq |-> 0, writeLog |-> {},
     locked |-> FALSE, rlocked |-> FALSE, keys |-> {}, recentKey |-> 0]

\* continuousWriter, case <-ctx.Done()
WriterStops ==
    /\ wl.wpc = "select" /\ ctxDone
    /\ wl' = [wl EXCEPT !.wpc = "done"]
    /\ UNCHANGED <<coreVars, em, re, hb>>

\* continuousWriter, case <-ticker.C: the map is obtained (or not), the next
\* sequence number is taken and the Put is issued.
WriterTick ==
    /\ wl.wpc = "select" /\ wl.rpc # "fatal"
    /\ wl.writeSeq < MaxSeq
    /\ \E mapOk \in BOOLEAN :
        IF ~mapOk THEN UNCHANGED wl
        ELSE wl' = [wl EXCEPT !.writeSeq = @ + 1, !.wpc = "put"]
    /\ UNCHANGED <<coreVars, em, re, hb>>

\* The Put returns: WRITE_FAILED, or the writer goes for the lock.
WriterPut ==
    /\ wl.wpc = "put" /\ wl.rpc # "fatal"
    /\ \E outcome \in {"ok", "error"} :
        wl' = [wl EXCEPT !.wpc = IF outcome = "ok" THEN "lock" ELSE "select"]
    /\ UNCHANGED <<coreVars, em, re, hb>>

\* ft.writeLogMux.Lock()
WriterLock ==
    /\ wl.wpc = "lock" /\ wl.rpc # "fatal"
    /\ ~wl.locked /\ ~wl.rlocked
    /\ wl' = [wl EXCEPT !.locked = TRUE, !.wpc = "insert"]
    /\ UNCHANGED <<coreVars, em, re, hb>>

\* ft.writeLog[key] = value is complete; ft.writeLogMux.Unlock()
WriterInsert ==
    /\ wl.wpc = "insert" /\ wl.rpc # "fatal"
    /\ wl' = [wl EXCEPT !.writeLog = @ \cup {wl.writeSeq}, !.locked = FALSE,
                        !.wpc = "select"]
    /\ UNCHANGED <<coreVars, em, re, hb>>

\* continuousReader, case <-ctx.Done()
ReaderStops ==
    /\ wl.rpc = "select" /\ ctxDone
    /\ wl' = [wl EXCEPT !.rpc = "done"]
    /\ UNCHANGED <<coreVars, em, re, hb>>

\* continuousReader, case <-ticker.C: ft.writeLogMux.RLock()
ReaderRLock ==
    /\ wl.rpc = "select"
    /\ ~wl.locked
    /\ wl' = [wl EXCEPT !.rlocked = TRUE, !.rpc = "collect"]
    /\ UNCHANGED <<coreVars, em, re, hb>>

\* len(ft.writeLog) == 0: RUnlock, continue; otherwise the keys are
\* collected, then RUnlock.
ReaderCollect ==
    /\ wl.rpc = "collect"
    /\ wl' = [wl EXCEPT !.rlocked = FALSE,
                        !.keys = wl.writeLog,
                        !.rpc = IF wl.writeLog = {} THEN "select" ELSE "getmap"]
    /\ UNCHANGED <<coreVars, em, re, hb>>

\* The map instance is obtained (or not); recentKey := keys[len(keys)-1],
\* any key, as the order of a range over a map is not defined.
ReaderGetMap ==
    /\ wl.rpc = "getmap"
    /\ \E mapOk \in BOOLEAN :
        IF ~mapOk THEN wl' = [wl EXCEPT !.rpc = "select", !.keys = {}]
        ELSE \E key \in wl.keys :
                wl' = [wl EXCEPT !.recentKey = key, !.rpc = "lookup"]
    /\ UNCHANGED <<coreVars, em, re, hb>>

\* expectedValue := ft.writeLog[recentKey] is complete.  If the writer is
\* inserting at the same time the read is a data race: the runtime stops the
\* process, or the read goes through.
ReaderLookup ==
    /\ wl.rpc = "lookup"
    /\ \E detected \in IF wl.wpc = "insert" THEN BOOLEAN ELSE {FALSE} :
        wl' = [wl EXCEPT !.rpc = IF detected THEN "fatal" ELSE "get"]
    /\ UNCHANGED <<coreVars, em, re, hb>>

\* testMap.Get returns and its outcome is logged.
ReaderGet ==
    /\ wl.rpc = "get"
    /\ wl' = [wl EXCEPT !.rpc = "select", !.keys = {}, !.recentKey = 0]
    /\ UNCHANGED <<coreVars, em, re, hb>>

(***************************************************************************)
(* ElectionManager (package leadership): the mutex mu guards the map       *)
(* active from device ID to the election running for it.  em.mu is the     *)
(* goroutine holding mu (0: unlocked), em.active[d] the election stored    *)
(* for device d (0: no entry), em.elections the elections created so far,  *)
(* each with its device, whether its runElection goroutine was started,    *)
(* whether its context was cancelled and whether the hostname was evicted, *)
(* and em.calls[c] the position of goroutine c inside StartElection.  A    *)
(* sync.Mutex is not reentrant: Lock blocks while em.mu # 0, whoever holds *)
(* it.                                                                     *)
(***************************************************************************)
MaxElections == 3

Callers == {1, 2}

ManagedDevices == {"Switch-A", "Switch-B"}

NoElectionManager ==
    [mu |-> 0,
     active |-> [d \in ManagedDevices |-> 0],
     elections |-> <<>>,
     calls |-> [c \in Callers |-> [pc |-> "none", dev |-> "", el |-> 0]]]

\* m.mu.Lock() at the head of StartElection.
StartElectionLock(c, deviceID) ==
    /\ em.calls[c].pc = "idle"
    /\ em.mu = 0
    /\ em' = [em EXCEPT !.mu = c,
                        !.calls[c] = [pc |-> "check", dev |-> deviceID, el |-> 0]]
    /\ UNCHANGED <<coreVars, wl, re, hb>>

\* if _, exists := m.active[deviceID]; exists { return }; m.mu.Unlock():
\* the return of the exists branch comes before the Unlock.
StartElectionCheck(c) ==
    /\ em.calls[c].pc = "check"
    /\ IF em.active[em.calls[c].dev] # 0
       THEN em' = [em EXCEPT !.calls[c].pc = "idle"]
       ELSE em' = [em EXCEPT !.mu = 0, !.calls[c].pc = "get"]
    /\ UNCHANGED <<coreVars, wl, re, hb>>

\* context.WithCancel and atomix.LeaderElection(...).Get(ctx), outside the
\* lock; on an error the context is cancelled and the call returns.
StartElectionGet(c) ==
    /\ em.calls[c].pc = "get"
    /\ \E ok \in BOOLEAN :
         IF ok
         THEN /\ Len(em.elections) < MaxElections
              /\ em' = [em EXCEPT
                   !.elections = Append(@, [dev |-> em.calls[c].dev,
                                            started |-> FALSE,
                                            cancelled |-> FALSE,
                                            evicted |-> FALSE]),
                   !.calls[c].el = Len(em.elections) + 1,
                   !.calls[c].pc = "store"]
         ELSE em' = [em EXCEPT !.calls[c].pc = "idle"]
    /\ UNCHANGED <<coreVars, wl, re, hb>>

\* m.mu.Lock(); m.active[deviceID] = activeElection{...}; m.mu.Unlock();
\* go m.runElection(ctx, dev, e)
StartElectionStore(c) ==
    /\ em.calls[c].pc = "store"
    /\ em.mu = 0
    /\ em' = [em EXCEPT
         !.active[em.calls[c].dev] = em.calls[c].el,
         !.elections[em.calls[c].el].started = TRUE,
         !.calls[c].pc = "idle"]
    /\ UNCHANGED <<coreVars, wl, re, hb>>

\* StopElection, whole under the lock (defer Unlock): cancel, Evict, delete.
StopElection(c, deviceID) ==
    /\ em.calls[c].pc = "idle"
    /\ em.mu = 0
    /\ IF em.active[deviceID] # 0
       THEN em' = [em EXCEPT
              !.elections[em.active[deviceID]].cancelled = TRUE,
              !.elections[em.active[deviceID]].evicted = TRUE,
              !.active[deviceID] = 0]
       ELSE em' = em
    /\ UNCHANGED <<coreVars, wl, re, hb>>

\* StopAllElectionsForHostname with the manager's own hostname, whole under
\* the lock: Evict on every stored election, no cancel, no delete.
StopAllElectionsForHostname(c) ==
    /\ em.calls[c].pc = "idle"
    /\ em.mu = 0
    /\ em' = [em EXCEPT !.elections =
                [e \in DOMAIN em.elections |->
                   IF \E d \in ManagedDevices : em.active[d] = e
                   THEN [em.elections[e] EXCEPT !.evicted = TRUE]
                   ELSE em.elections[e]]]
    /\ UNCHANGED <<coreVars, wl, re, hb>>

(***************************************************************************)
(* runElection (ElectionManager.runElection; RunElection of the election   *)
(* and leadership packages and participateInElection of the prototype's    *)
(* main have the same loop body): after Enter, Watch and the config map    *)
(* are obtained, the goroutine reads term events from the stream.  re is   *)
(* its frame: cache is the term of the previous event (NoTerm: nil), value *)
(* the words of the config map entry it wrote (<<>>: none), cancelled      *)
(* whether the election's context was cancelled.  History: events counts   *)
(* the events processed, puts the Put calls, prev is the cache as it was   *)
(* before the last event and wrote whether the last event made a Put.      *)
(* The Candidates of a term only feed a log line and are left out.         *)
(***************************************************************************)
MaxEvents == 4

MaxTermID == 3

Hostname == "controller-0"

OtherController == "controller-1"

NoTerm == [ID |-> 0, Leader |-> "nil"]

NoRunElection ==
    [pc |-> "none", cache |-> NoTerm, value |-> <<>>, cancelled |-> FALSE,
     events |-> 0, puts |-> 0, prev |-> NoTerm, wrote |-> FALSE]

\* The terms the stream can deliver after the term in cache: term IDs never
\* decrease; the leader is this controller, another one, or nobody.
TermEvents(cache) ==
    {[ID |-> id, Leader |-> l] :
        id \in {i \in 1..MaxTermID : i >= cache.ID},
        l \in {"", Hostname, OtherController}}

\* if cache == nil || cache.Leader != term.Leader
LeaderChangedAlways(cache, term) == TRUE

LeaderChanged(cache, term) ==
    cache = NoTerm \/ cache.Leader # term.Leader

\* select { case <-ctx.Done(): return; default: } at the head of the loop
RunElectionStops ==
    /\ re.pc = "loop"
    /\ re.cancelled
    /\ re' = [re EXCEPT !.pc = "returned"]
    /\ UNCHANGED <<coreVars, wl, em, hb>>

\* cancel() of the election's context, called by StopElection
RunElectionCancel ==
    /\ re.pc = "loop"
    /\ ~re.cancelled
    /\ re' = [re EXCEPT !.cancelled = TRUE]
    /\ UNCHANGED <<coreVars, wl, em, hb>>

\* stream.Next() fails: sleep a second and continue
RunElectionStreamError ==
    /\ re.pc = "loop"
    /\ re' = [re EXCEPT !.wrote = FALSE]
    /\ UNCHANGED <<coreVars, wl, em, hb>>

\* One iteration with a term from the stream: Put "leader <hostname>" when
\* the leader changed and is this candidate; cache = term.
RunElectionTerm ==
    /\ re.pc = "loop"
    /\ re.events < MaxEvents
    /\ \E term \in TermEvents(re.cache) :
         LET put == LeaderChanged(re.cache, term) /\ term.Leader = Hostname
         IN  re' = [re EXCEPT
                      !.value = IF put THEN <<"leader", Hostname>> ELSE @,
                      !.puts = IF put THEN @ + 1 ELSE @,
                      !.wrote = put,
                      !.prev = re.cache,
                      !.cache = term,
                      !.events = @ + 1]
    /\ UNCHANGED <<coreVars, wl, em, hb>>

(***************************************************************************)
(* Heartbeats (package heartbeat; MonitorMembership of package membership  *)
(* has the same loop over the members map).  hb.now is the Unix time,      *)
(* hb.heartbeat[n] the timestamp stored for node n in the heartbeat map    *)
(* (Absent: no entry), hb.members the membership set, hb.candidates[e] the *)
(* candidates of election e and hb.beating[n] whether node n's             *)
(* StartHeartbeat loop is running.  The monitor's frame: mpc, entries (the *)
(* list returned by heartbeatMap.List, not yet iterated) and mnow (now,    *)
(* read once per tick).  History: hb.removal records the last removal the  *)
(* monitor made: the node, the timestamp stored for it in the map at that  *)
(* moment, and the time.                                                   *)
(***************************************************************************)
MaxClock == 4

Threshold == 2

Absent == 0 - 1

Nodes == {"controller-0", "controller-1"}

ElectionNames == {"election-Switch-A", "election-Switch-B"}

NoRemoval == [node |-> "", recorded |-> Absent, at |-> 0]

NoHeartbeat ==
    [now |-> 0,
     heartbeat |-> [n \in Nodes |-> Absent],
     members |-> {},
     candidates |-> [e \in ElectionNames |-> {}],
     beating |-> [n \in Nodes |-> FALSE],
     mpc |-> "none", entries |-> <<>>, mnow |-> 0,
     removal |-> NoRemoval]

\* The entries of the heartbeat map, as heartbeatMap.List returns them.
RECURSIVE ListEntries(_, _)
ListEntries(heartbeat, nodes) ==
    IF nodes = {} THEN <<>>
    ELSE LET n == CHOOSE x \in nodes : TRUE
         IN  (IF heartbeat[n] = Absent THEN <<>>
              ELSE <<[Key |-> n, Value |-> heartbeat[n]]>>)
             \o ListEntries(heartbeat, nodes \ {n})

\* if now-lastBeat > int64(threshold.Seconds())
Offline(now, lastBeat) == now - lastBeat > Threshold

\* Time passes.
ClockTick ==
    /\ hb.mpc # "none"
    /\ hb.now < MaxClock
    /\ hb' = [hb EXCEPT !.now = @ + 1]
    /\ UNCHANGED <<coreVars, wl, em, re>>

\* StartHeartbeat of node n, case <-ticker.C: Put(hostname, time.Now().Unix()),
\* which may fail (logged).
StartHeartbeatTick(n) ==
    /\ hb.mpc # "none"
    /\ hb.beating[n]
    /\ \E ok \in BOOLEAN :
         hb' = IF ok THEN [hb EXCEPT !.heartbeat[n] = hb.now] ELSE hb
    /\ UNCHANGED <<coreVars, wl, em, re>>

\* StartHeartbeat of node n, case <-ctx.Done() (the node shuts down).
StartHeartbeatStops(n) ==
    /\ hb.mpc # "none"
    /\ hb.beating[n]
    /\ hb' = [hb EXCEPT !.beating[n] = FALSE]
    /\ UNCHANGED <<coreVars, wl, em, re>>

\* MonitorHeartbeat, case <-ticker.C: List and now.
MonitorHeartbeatList ==
    /\ hb.mpc = "select"
    /\ hb' = [hb EXCEPT !.entries = ListEntries(hb.heartbeat, Nodes),
                        !.mnow = hb.now,
                        !.mpc = "next"]
    /\ UNCHANGED <<coreVars, wl, em, re>>

\* MonitorHeartbeat, one iteration of the inner loop: entries.Next() ends
\* the loop at io.EOF or on an error; an entry found offline is removed from
\* the heartbeat map (the Remove may fail), removed from membership and
\* evicted from every election (each Evict may fail).
MonitorHeartbeatNext ==
    /\ hb.mpc = "next"
    /\ \E err \in BOOLEAN, removed \in BOOLEAN, evicted \in SUBSET ElectionNames :
         IF err \/ hb.entries = <<>>
         THEN /\ removed /\ evicted = ElectionNames
              /\ hb' = [hb EXCEPT !.entries = <<>>, !.mpc = "select"]
         ELSE LET hostname == Head(hb.entries).Key
                  lastBeat == Head(hb.entries).Value
              IN  IF Offline(hb.mnow, lastBeat)
                  THEN hb' = [hb EXCEPT
                         !.heartbeat[hostname] = IF removed THEN Absent ELSE @,
                         !.members = @ \ {hostname},
                         !.candidates = [e \in ElectionNames |->
                            IF e \in evicted THEN @[e] \ {hostname} ELSE @[e]],
                         !.removal = IF removed
                                     THEN [node |-> hostname,
                                           recorded |-> hb.heartbeat[hostname],
                                           at |-> hb.now]
                                     ELSE @,
                         !.entries = Tail(@)]
                  ELSE /\ removed /\ evicted = ElectionNames
                       /\ hb' = [hb EXCEPT !.entries = Tail(@)]
    /\ UNCHANGED <<coreVars, wl, em, re>>

(***************************************************************************)
(* SpecTerminate: terminateLeaderPod called with any LeaderInfo, the cache *)
(* entries the refresh can write and the zero value among them.            *)
(***************************************************************************)

NoTerminate == [pc |-> "done", leader |-> ZeroLeaderInfo, err |-> NoError]

\* Leader names the platform can report, well formed or not.
AnyLeaderNames == LeaderNames \cup {<<>>, <<"node", "1">>,
                                    <<"consensus", "store", "1", "x">>,
                                    <<"consensus", "store", "2", "0">>,
                                    <<"consensus", "store", "2", "3">>}

ReadyInfos(part) ==
    {LeaderInfo(part, n, PodIndexOf(n), term, "Ready") :
        n \in LeaderNames, term \in 0..MaxTerm}

TerminateInputs ==
    {LeaderInfo(part, n, PodIndexOf(n), term, st) :
        part \in Partitions, n \in AnyLeaderNames, term \in 0..MaxTerm,
        st \in {"Ready", "unknown"}}
    \cup {LeaderInfo(part, <<>>, 0, 0, "no-leader") : part \in Partitions}
    \cup {ZeroLeaderInfo}

NoRunAtAll ==
    /\ testCounter = 0 /\ results = <<>> /\ t = NoTrial /\ run = NoRun
    /\ report = NoReport

\* The cache at the call is empty, or holds for the partition of the argument
\* the Ready leader of the last refresh.
InitTerminate ==
    /\ polledSinceWrite = FALSE
    /\ ctxDone = FALSE
    /\ w = NoWait
    /\ deletes = <<>> /\ platformAnswer = "" /\ terminatedLog = <<>>
    /\ \E leader \in TerminateInputs :
        /\ tp = [pc |-> "call", leader |-> leader, err |-> NoError]
        /\ \/ leaderCache = <<>>
           \/ \E info \in ReadyInfos(leader.PartitionID) :
                leaderCache = (leader.PartitionID :> info)
    /\ NoRunAtAll
    /\ ct = NoConcurrencyTest
    /\ rf = NoRefresh /\ an = NoAnalysis /\ lk = NoLock
    /\ ar = NoAnalyzeResults /\ cn = NoConnectivity /\ wl = NoWriteLog /\ em = NoElectionManager /\ re = NoRunElection /\ hb = NoHeartbeat

NextTerminate == TerminateCall

SpecTerminate == InitTerminate /\ [][NextTerminate]_vars

(***************************************************************************)
(* SpecWait: one call of waitForLeaderElection, as executePrecisionFailover*)
(* Test and executeImmediateReadTest make it: the cache holds the Ready    *)
(* leader that waitForReadyLeader returned, and originalTerm is its term.  *)
(***************************************************************************)

InitWait ==
    /\ \E part \in Partitions : \E info \in ReadyInfos(part) :
        /\ leaderCache = (part :> info)
        /\ w = NewWait("election", "select", part, info.Term)
    /\ polledSinceWrite = FALSE
    /\ ctxDone = FALSE
    /\ deletes = <<>> /\ platformAnswer = "" /\ terminatedLog = <<>>
    /\ tp = NoTerminate
    /\ NoRunAtAll
    /\ ct = NoConcurrencyTest
    /\ rf = NoRefresh /\ an = NoAnalysis /\ lk = NoLock
    /\ ar = NoAnalyzeResults /\ cn = NoConnectivity /\ wl = NoWriteLog /\ em = NoElectionManager /\ re = NoRunElection /\ hb = NoHeartbeat

NextWait ==
    \/ TimeoutFires
    \/ TickerFires
    \/ Cancel
    \/ SelectBlocks
    \/ ElectionTimeout
    \/ ElectionCancelled
    \/ ElectionTick
    \/ ElectionRefreshFails
    \/ ElectionPoll(Responses)
    \/ ElectionSettleRefreshFails
    \/ ElectionSettlePoll(Responses)

SpecWait == InitWait /\ [][NextWait]_vars

(***************************************************************************)
(* SpecFailover: a run of the enhanced failover test, in either mode, from *)
(* the call of the run loop in main to the report.                         *)
(***************************************************************************)

\* The platform's answers during a run: no item, or the item of the
\* partition the wait function polls for, without a leader or with a Ready one.
TrialItems ==
    {Item(GroupName(Itoa(w.partitionID)), TRUE, FALSE, FALSE, <<>>, FALSE, 0, FALSE, ""),
     Item(GroupName(Itoa(w.partitionID)), TRUE, TRUE, TRUE, PodA, TRUE, 1, TRUE, "Ready"),
     Item(GroupName(Itoa(w.partitionID)), TRUE, TRUE, TRUE, PodB, TRUE, MaxTerm, TRUE,
          "Ready")}

TrialResponses == {<<>>} \cup {<<i>> : i \in TrialItems}

InitFailover ==
    /\ leaderCache = <<>> /\ polledSinceWrite = FALSE
    /\ ctxDone = FALSE
    /\ w = NoWait
    /\ deletes = <<>> /\ platformAnswer = "" /\ terminatedLog = <<>>
    /\ tp = NoTerminate
    /\ testCounter = 0 /\ results = <<>> /\ t = NoTrial
    /\ report = NoReport
    /\ ct = NoConcurrencyTest
    /\ rf = NoRefresh /\ an = NoAnalysis /\ lk = NoLock
    /\ ar = NoAnalyzeResults /\ cn = NoConnectivity /\ wl = NoWriteLog /\ em = NoElectionManager /\ re = NoRunElection /\ hb = NoHeartbeat
    /\ \E mode \in {"precision", "comprehensive"} :
        run = [mode |-> mode, pc |-> "loop", entry |-> 1, half |-> "immediate",
               totalTests |-> 0, successfulTests |-> 0]

NextFailover ==
    \/ TimeoutFires
    \/ TickerFires
    \/ Cancel
    \/ SelectBlocks
    \/ ElectionTimeout
    \/ ElectionCancelled
    \/ ElectionTick
    \/ ElectionRefreshFails
    \/ ElectionPoll(TrialResponses)
    \/ ElectionSettleRefreshFails
    \/ ElectionSettlePoll(TrialResponses)
    \/ ReadyFirstRefreshFails
    \/ ReadyFirstPoll(TrialResponses)
    \/ ReadyTimeout
    \/ ReadyCancelled
    \/ ReadyTick
    \/ ReadyRefreshFails
    \/ ReadyPoll(TrialResponses)
    \/ TrialStart
    \/ TrialReadyLeader
    \/ TrialPutReturns
    \/ TrialTerminate
    \/ TrialImmediateRead
    \/ TrialElectionReturns
    \/ TrialVerify
    \/ RunRecord
    \/ RunReport
    \/ AnalyzeLog

SpecFailover == InitFailover /\ [][NextFailover]_vars

(***************************************************************************)
(* SpecConcurrency: the two tests of runConcurrencyTests, one after the    *)
(* other, for the configured numbers of clients and operations.            *)
(***************************************************************************)

InitConcurrency ==
    /\ leaderCache = <<>> /\ polledSinceWrite = FALSE
    /\ ctxDone = FALSE
    /\ w = NoWait
    /\ deletes = <<>> /\ platformAnswer = "" /\ terminatedLog = <<>>
    /\ tp = NoTerminate
    /\ NoRunAtAll
    /\ rf = NoRefresh /\ an = NoAnalysis /\ lk = NoLock
    /\ ar = NoAnalyzeResults /\ cn = NoConnectivity /\ wl = NoWriteLog /\ em = NoElectionManager /\ re = NoRunElection /\ hb = NoHeartbeat
    /\ \E clients \in 0..MaxClients, ops \in 0..MaxOps :
        /\ clients * ops <= MaxWrites
        /\ ct = NewConcurrencyTestState(clients, ops)

NextConcurrency ==
    \/ LinStart
    \/ \E i \in Clients : LinClientPut(i)
    \/ \E i \in Clients : LinClientStore(i)
    \/ LinFinalRead
    \/ DurStart
    \/ \E i \in Clients : DurClientPut(i)
    \/ DurFinalRead
    \/ GenerateFinalReport

SpecConcurrency == InitConcurrency /\ [][NextConcurrency]_vars

(***************************************************************************)
(* SpecRefresh: one call of updateLeaderInfo, for any cache of two         *)
(* partitions and any response of up to MaxItems items, readable or not.   *)
(***************************************************************************)

MaxItems == 2

\* The items of a response: for a partition, an item without status, without
\* leader, without leader name, or with a Ready leader; an item whose name
\* has no partition number; an item whose name has too few fields.
RefreshItems ==
    UNION {{Item(GroupName(tok), FALSE, FALSE, FALSE, <<>>, FALSE, 0, FALSE, ""),
            Item(GroupName(tok), TRUE, FALSE, FALSE, <<>>, FALSE, 0, FALSE, ""),
            Item(GroupName(tok), TRUE, TRUE, FALSE, <<>>, FALSE, 0, FALSE, ""),
            Item(GroupName(tok), TRUE, TRUE, TRUE, PodB, TRUE, MaxTerm, TRUE, "Ready")} :
           tok \in PartitionTokens}
    \cup {Item(GroupName("x"), TRUE, TRUE, TRUE, PodB, TRUE, MaxTerm, TRUE, "Ready"),
          Item(<<"raftgroup">>, TRUE, TRUE, TRUE, PodB, TRUE, MaxTerm, TRUE, "Ready")}

RefreshResponses ==
    UNION {[1..n -> RefreshItems] : n \in 0..MaxItems}

\* The caches a call can find: for each of two partitions, no entry or a
\* Ready leader of term 1.
RefreshCaches ==
    {<<>>, (0 :> LeaderInfo(0, PodA, 1, 1, "Ready")),
     (1 :> LeaderInfo(1, PodA, 1, 1, "Ready")),
     (0 :> LeaderInfo(0, PodA, 1, 1, "Ready")) @@ (1 :> LeaderInfo(1, PodA, 1, 1, "Ready"))}

InitRefresh ==
    /\ polledSinceWrite = FALSE
    /\ ctxDone = FALSE
    /\ w = NoWait
    /\ deletes = <<>> /\ platformAnswer = "" /\ terminatedLog = <<>>
    /\ tp = NoTerminate
    /\ NoRunAtAll
    /\ ct = NoConcurrencyTest
    /\ an = NoAnalysis /\ lk = NoLock
    /\ ar = NoAnalyzeResults /\ cn = NoConnectivity /\ wl = NoWriteLog /\ em = NoElectionManager /\ re = NoRunElection /\ hb = NoHeartbeat
    /\ \E cache \in RefreshCaches, response \in RefreshResponses :
        /\ leaderCache = cache
        /\ rf = [pc |-> "call", response |-> response, before |-> cache, err |-> FALSE]

NextRefresh == RefreshCall

SpecRefresh == InitRefresh /\ [][NextRefresh]_vars

(***************************************************************************)
(* SpecLock: up to MaxRefreshes refreshes of one goroutine interleaved     *)
(* with the getLeaderForPartition calls of two others.                     *)
(***************************************************************************)

InitLock ==
    /\ leaderCache = <<>>
    /\ polledSinceWrite = FALSE
    /\ ctxDone = FALSE
    /\ w = NoWait
    /\ deletes = <<>> /\ platformAnswer = "" /\ terminatedLog = <<>>
    /\ tp = NoTerminate
    /\ NoRunAtAll
    /\ ct = NoConcurrencyTest
    /\ rf = NoRefresh /\ an = NoAnalysis
    /\ ar = NoAnalyzeResults /\ cn = NoConnectivity /\ wl = NoWriteLog /\ em = NoElectionManager /\ re = NoRunElection /\ hb = NoHeartbeat
    /\ lk = [NoLock EXCEPT !.upd.pc = "idle"]

NextLock ==
    \/ UpdList
    \/ UpdLock
    \/ UpdStore
    \/ UpdUnlock
    \/ \E r \in Readers : GetRLock(r)
    \/ \E r \in Readers : GetReturn(r)

SpecLock == InitLock /\ [][NextLock]_vars

(***************************************************************************)
(* SpecVerdicts: either harness, the failover run or the concurrency       *)
(* tests; every place where a verification read sets a verdict.            *)
(***************************************************************************)

InitVerdicts == InitFailover \/ InitConcurrency

NextVerdicts == NextFailover \/ NextConcurrency

SpecVerdicts == InitVerdicts /\ [][NextVerdicts]_vars

(***************************************************************************)
(* SpecGaps: detectSequenceGaps on the records of a write stream           *)
(* seq-1 .. seq-n, n <= MaxSeq, each write successful or failed, the       *)
(* records in any order.                                                   *)
(***************************************************************************)

Orders(n) ==
    {p \in [1..n -> 1..n] : \A a, b \in 1..n : a # b => p[a] # p[b]}

InitGaps ==
    /\ leaderCache = <<>> /\ polledSinceWrite = FALSE
    /\ ctxDone = FALSE
    /\ w = NoWait
    /\ deletes = <<>> /\ platformAnswer = "" /\ terminatedLog = <<>>
    /\ tp = NoTerminate
    /\ NoRunAtAll
    /\ ct = NoConcurrencyTest
    /\ rf = NoRefresh /\ lk = NoLock
    /\ ar = NoAnalyzeResults /\ cn = NoConnectivity /\ wl = NoWriteLog /\ em = NoElectionManager /\ re = NoRunElection /\ hb = NoHeartbeat
    /\ \E n \in 0..MaxSeq :
        \E success \in [1..n -> BOOLEAN], order \in Orders(n) :
            an = [NoAnalysis EXCEPT
                    !.pc = "call", !.n = n,
                    !.writes = [k \in 1..n |->
                                  [SeqNum |-> order[k], Success |-> success[order[k]]]]]

NextGaps == DetectCall

SpecGaps == InitGaps /\ [][NextGaps]_vars

(***************************************************************************)
(* SpecAnalysis: the log analyzer on a log of up to MaxReads reads, each   *)
(* with any outcome and a duration of 1..MaxDuration.                      *)
(***************************************************************************)

InitAnalysis ==
    /\ leaderCache = <<>> /\ polledSinceWrite = FALSE
    /\ ctxDone = FALSE
    /\ w = NoWait
    /\ deletes = <<>> /\ platformAnswer = "" /\ terminatedLog = <<>>
    /\ tp = NoTerminate
    /\ NoRunAtAll
    /\ ct = NoConcurrencyTest
    /\ rf = NoRefresh /\ lk = NoLock
    /\ ar = NoAnalyzeResults /\ cn = NoConnectivity /\ wl = NoWriteLog /\ em = NoElectionManager /\ re = NoRunElection /\ hb = NoHeartbeat
    /\ \E n \in 0..MaxReads :
        \E kind \in [1..n -> {"error", "nil", "mismatch", "match"}],
           duration \in [1..n -> 1..MaxDuration] :
            an = [NoAnalysis EXCEPT !.pc = "analysis",
                                    !.reads = [k \in 1..n |-> parseRead(kind[k], duration[k])]]

NextAnalysis == AnalysisCall

SpecAnalysis == InitAnalysis /\ [][NextAnalysis]_vars

(***************************************************************************)
(* SpecParsing: one direct call of updateLeaderInfo or of                  *)
(* terminateLeaderPod, on the names of SpecRefresh and SpecTerminate.      *)
(***************************************************************************)

InitParsing == InitRefresh \/ InitTerminate

NextParsing == RefreshCall \/ TerminateCall

SpecParsing == InitParsing /\ [][NextParsing]_vars

(***************************************************************************)
(* SpecConnectivity: each harness from its initial Put to the start of its *)
(* workload, or to its early exit.                                         *)
(***************************************************************************)

InitConnectivity ==
    /\ leaderCache = <<>> /\ polledSinceWrite = FALSE
    /\ ctxDone = FALSE
    /\ w = NoWait
    /\ deletes = <<>> /\ platformAnswer = "" /\ terminatedLog = <<>>
    /\ tp = NoTerminate
    /\ NoRunAtAll
    /\ ct = NoConcurrencyTest
    /\ rf = NoRefresh /\ an = NoAnalysis /\ lk = NoLock
    /\ ar = NoAnalyzeResults /\ wl = NoWriteLog /\ em = NoElectionManager /\ re = NoRunElection /\ hb = NoHeartbeat
    /\ \E time \in 0..MaxTime :
        \/ cn = [NoConnectivity EXCEPT !.harness = "experiment-3", !.pc = "put",
                                       !.value = InitialValue(time)]
        \/ \E mode \in {"precision", "comprehensive"} :
            cn = [NoConnectivity EXCEPT !.harness = "failover", !.config = mode,
                                        !.pc = "put", !.value = InitialValue(time)]
        \/ \E clients \in 0..MaxClients, ops \in 0..MaxOps :
            /\ clients * ops <= MaxWrites
            /\ cn = [NoConnectivity EXCEPT !.harness = "concurrency",
                                           !.config = <<clients, ops>>,
                                           !.pc = "put", !.value = InitialValue(time)]

NextConnectivity == ConnectPut \/ ConnectGet

SpecConnectivity == InitConnectivity /\ [][NextConnectivity]_vars

(***************************************************************************)
(* SpecWriteLog: the continuous writer and the continuous reader of        *)
(* experiment 3, for the first MaxSeq sequence numbers.                    *)
(***************************************************************************)

InitWriteLog ==
    /\ leaderCache = <<>> /\ polledSinceWrite = FALSE
    /\ ctxDone = FALSE
    /\ w = NoWait
    /\ deletes = <<>> /\ platformAnswer = "" /\ terminatedLog = <<>>
    /\ tp = NoTerminate
    /\ NoRunAtAll
    /\ ct = NoConcurrencyTest
    /\ rf = NoRefresh /\ an = NoAnalysis /\ lk = NoLock
    /\ ar = NoAnalyzeResults /\ cn = NoConnectivity /\ em = NoElectionManager /\ re = NoRunElection /\ hb = NoHeartbeat
    /\ wl = [NoWriteLog EXCEPT !.wpc = "select", !.rpc = "select"]

NextWriteLog ==
    \/ Cancel
    \/ WriterStops
    \/ WriterTick
    \/ WriterPut
    \/ WriterLock
    \/ WriterInsert
    \/ ReaderStops
    \/ ReaderRLock
    \/ ReaderCollect
    \/ ReaderGetMap
    \/ ReaderLookup
    \/ ReaderGet

SpecWriteLog == InitWriteLog /\ [][NextWriteLog]_vars

(***************************************************************************)
(* SpecElectionManager: a fresh ElectionManager used by the goroutines of  *)
(* Callers, each calling StartElection, StopElection and                   *)
(* StopAllElectionsForHostname one call after the other.                   *)
(***************************************************************************)
InitElectionManager ==
    /\ leaderCache = <<>> /\ polledSinceWrite = FALSE
    /\ ctxDone = FALSE
    /\ w = NoWait
    /\ deletes = <<>> /\ platformAnswer = "" /\ terminatedLog = <<>>
    /\ tp = NoTerminate
    /\ NoRunAtAll
    /\ ct = NoConcurrencyTest
    /\ rf = NoRefresh /\ an = NoAnalysis /\ lk = NoLock
    /\ ar = NoAnalyzeResults /\ cn = NoConnectivity /\ wl = NoWriteLog /\ re = NoRunElection /\ hb = NoHeartbeat
    /\ em = [NoElectionManager EXCEPT
               !.calls = [c \in Callers |-> [pc |-> "idle", dev |-> "", el |-> 0]]]

NextElectionManager ==
    \/ \E c \in Callers, d \in ManagedDevices : StartElectionLock(c, d)
    \/ \E c \in Callers : StartElectionCheck(c)
    \/ \E c \in Callers : StartElectionGet(c)
    \/ \E c \in Callers : StartElectionStore(c)
    \/ \E c \in Callers, d \in ManagedDevices : StopElection(c, d)
    \/ \E c \in Callers : StopAllElectionsForHostname(c)

SpecElectionManager == InitElectionManager /\ [][NextElectionManager]_vars

(***************************************************************************)
(* SpecRunElection: one runElection goroutine that has entered its loop,   *)
(* fed with any sequence of term events and stream errors, its context     *)
(* cancelled at any moment.                                                *)
(***************************************************************************)
InitRunElection ==
    /\ leaderCache = <<>> /\ polledSinceWrite = FALSE
    /\ ctxDone = FALSE
    /\ w = NoWait
    /\ deletes = <<>> /\ platformAnswer = "" /\ terminatedLog = <<>>
    /\ tp = NoTerminate
    /\ NoRunAtAll
    /\ ct = NoConcurrencyTest
    /\ rf = NoRefresh /\ an = NoAnalysis /\ lk = NoLock
    /\ ar = NoAnalyzeResults /\ cn = NoConnectivity /\ wl = NoWriteLog /\ hb = NoHeartbeat
    /\ em = NoElectionManager
    /\ re = [NoRunElection EXCEPT !.pc = "loop"]

NextRunElection ==
    \/ RunElectionStops
    \/ RunElectionCancel
    \/ RunElectionStreamError
    \/ RunElectionTerm

SpecRunElection == InitRunElection /\ [][NextRunElection]_vars

(***************************************************************************)
(* SpecHeartbeat: the controllers of Nodes have entered every election and *)
(* registered as members, their StartHeartbeat loops run, and one          *)
(* MonitorHeartbeat loop runs.                                              *)
(***************************************************************************)
InitHeartbeat ==
    /\ leaderCache = <<>> /\ polledSinceWrite = FALSE
    /\ ctxDone = FALSE
    /\ w = NoWait
    /\ deletes = <<>> /\ platformAnswer = "" /\ terminatedLog = <<>>
    /\ tp = NoTerminate
    /\ NoRunAtAll
    /\ ct = NoConcurrencyTest
    /\ rf = NoRefresh /\ an = NoAnalysis /\ lk = NoLock
    /\ ar = NoAnalyzeResults /\ cn = NoConnectivity /\ wl = NoWriteLog
    /\ em = NoElectionManager /\ re = NoRunElection
    /\ hb = [NoHeartbeat EXCEPT
               !.members = Nodes,
               !.candidates = [e \in ElectionNames |-> Nodes],
               !.beating = [n \in Nodes |-> TRUE],
               !.mpc = "select"]

NextHeartbeat ==
    \/ ClockTick
    \/ \E n \in Nodes : StartHeartbeatTick(n)
    \/ \E n \in Nodes : StartHeartbeatStops(n)
    \/ MonitorHeartbeatList
    \/ MonitorHeartbeatNext

SpecHeartbeat == InitHeartbeat /\ [][NextHeartbeat]_vars

(***************************************************************************)
(* Properties of waitForLeaderElection (SpecWait)                          *)
(***************************************************************************)

\* C1: whenever waitForLeaderElection returns a leader without error, the
\* returned leader's Term is strictly greater than originalTerm and its State
\* is "Ready".
C1_RecoveryMonotonic ==
    (w.fn = "election" /\ w.ret.kind = "leader") =>
        /\ w.ret.leader.Term > w.originalTerm
        /\ w.ret.leader.State = "Ready"

\* A leader has been returned.
C1_Witness == w.fn = "election" /\ w.pc = "done" /\ w.ret.kind = "leader"

\* Two snapshots show the same leadership, and the second one is Ready.
C2_SameLeadership(r, leader) ==
    /\ r.exists
    /\ r.info.PodName = leader.PodName
    /\ r.info.Term = leader.Term
    /\ r.info.State = "Ready"

\* C2: a leader is returned only by the step that ends the settle wait with a
\* successful second refresh whose poll shows the pod name, the term and the
\* Ready state of the triggering snapshot, and that poll is what is returned;
\* a step that ends the settle wait with a failed refresh or a differing poll
\* returns nothing and goes back to the select loop.
C2_StableBeforeReturn ==
    [][ /\ (w.fn = "election" /\ w.ret.kind # "leader" /\ w'.ret.kind = "leader") =>
            /\ w.pc = "settle"
            /\ ~w'.err
            /\ C2_SameLeadership(GetLeaderForPartition(leaderCache', w.partitionID),
                                 w.leader)
            /\ w'.ret.leader = GetLeaderForPartition(leaderCache', w.partitionID).info
        /\ ( /\ w.fn = "election" /\ w.pc = "settle" /\ w'.pc # "settle"
             /\ \/ w'.err
                \/ ~C2_SameLeadership(
                        GetLeaderForPartition(leaderCache', w.partitionID), w.leader)
           ) => (w'.pc = "select" /\ w'.ret.kind = "none")
      ]_vars

\* The leader returned is the cache entry of the second poll.
C2_Witness ==
    /\ w.fn = "election" /\ w.ret.kind = "leader" /\ ~w.err
    /\ GetLeaderForPartition(leaderCache, w.partitionID).info = w.ret.leader
    /\ w.ret.leader.PodName = PodB

\* C3 (as claimed): a call ends in a leader, the timeout error or the
\* cancellation error, and it ends with a leader only if a poll taken before
\* the deadline showed a Ready snapshot with Term > originalTerm.
C3_NoLeaderPastDeadline ==
    (w.fn = "election" /\ w.pc = "done") =>
        /\ w.ret.kind \in {"leader", "timeout", "cancelled"}
        /\ (w.ret.kind = "leader" => w.qualifiedInTime)

(***************************************************************************)
(* The concurrency test (SpecConcurrency)                                  *)
(***************************************************************************)

C4_LastValues == {SequenceValue(i, ct.operationsPerClient) : i \in Clients}

\* C4: after all clients have written their sequences seq-1..seq-M (M >= 1),
\* the linearizability verdict is PASS iff the final read succeeded with the
\* last value (seq-M) of some client; an intermediate value or a value no
\* client wrote gives FAIL, and the FAIL record names the value read and the
\* expected last values of all clients.
C4_LinearizabilityVerdict ==
    (ct.operationsPerClient >= 1 /\ ct.linRead.kind # "none") =>
        /\ ct.linearizable <=>
            (ct.linRead.kind = "entry" /\ ct.linRead.value \in C4_LastValues)
        /\ (ct.linRead.kind = "entry" /\ ct.linRead.value \notin C4_LastValues) =>
            /\ ct.linCheck.written /\ ~ct.linCheck.success
            /\ ct.linCheck.value = ct.linRead.value
            /\ Len(ct.linCheck.expected) = ct.concurrentClients
            /\ \A i \in Clients :
                ct.linCheck.expected[i] = SequenceValue(i, ct.operationsPerClient)

\* The final read returned client-2-seq-1 after two clients wrote two values
\* each, and the verdict is FAIL.
C4_Witness ==
    /\ ct.concurrentClients = 2 /\ ct.operationsPerClient = 2
    /\ ct.linRead = [kind |-> "entry", value |-> SequenceValue(2, 1)]
    /\ ~ct.linearizable
    /\ ct.linCheck.expected = <<SequenceValue(1, 2), SequenceValue(2, 2)>>

C5_AcknowledgedValues ==
    {ct.acknowledgedWrites[k].Value :
        k \in {n \in 1..Len(ct.acknowledgedWrites) : ct.acknowledgedWrites[n].Success}}

\* C5: the write durability verdict is PASS iff the final read returned a
\* value equal to the value of a write whose Put returned success; a write
\* whose Put returned an error is recorded with Success = false and a final
\* value that matches only such writes gives FAIL.
C5_DurabilityVerdict ==
    ct.durRead.kind # "none" =>
        /\ ct.writeDurability <=>
            (ct.durRead.kind = "entry" /\ ct.durRead.value \in C5_AcknowledgedValues)
        /\ ct.durCheck.written =>
            (ct.durCheck.success <=> ct.durRead.value \in C5_AcknowledgedValues)

\* The final value is the value of a write whose Put returned an error, and
\* the verdict is FAIL.
C5_Witness ==
    /\ ct.durRead.kind = "entry"
    /\ \E k \in 1..Len(ct.acknowledgedWrites) :
        /\ ct.acknowledgedWrites[k].Value = ct.durRead.value
        /\ ~ct.acknowledgedWrites[k].Success
    /\ C5_AcknowledgedValues # {}
    /\ ~ct.writeDurability

(***************************************************************************)
(* Failover trials (SpecFailover)                                          *)
(***************************************************************************)

\* C6: a trial's Success is true iff its verification read returned, with no
\* error and a non-nil entry, exactly the value the trial wrote; and the
\* verification read returns only after waitForLeaderElection has returned a
\* confirmed leader for the partition of the trial's key.
C6_FailoverDurability ==
    [][ /\ \A i \in 1..Len(results') :
            results'[i].Success <=> results'[i].verifyRead = "match"
        /\ (t'.fn # "none" /\ t'.pc = "return") =>
            (t'.result.Success <=> t'.result.verifyRead = "match")
        /\ (t.fn # "none" /\ t.result.verifyRead = "none"
            /\ t'.fn # "none" /\ t'.result.verifyRead # "none") =>
            /\ w.fn = "election" /\ w.pc = "done" /\ w.ret.kind = "leader"
            /\ w.partitionID = getKeyPartition(t.result.Key)
            /\ w.ret.leader.PartitionID = getKeyPartition(t.result.Key)
            /\ t.result.LeaderAfter = w.ret.leader
      ]_vars

\* A successful trial and a trial that read back nothing have been recorded.
C6_Witness ==
    /\ \E i \in 1..Len(results) :
        results[i].Success /\ results[i].verifyRead = "match"
    /\ \E i \in 1..Len(results) :
        ~results[i].Success /\ results[i].verifyRead = "nil"

C7_RecoveryTimedOut(r) ==
    r.Error = [phase |-> "Leader election failed", cause |-> "timeout"]

C7_FailuresReported(s) ==
    IF report.kind = "detailed"
    THEN report.scenarioStats[s].total - report.scenarioStats[s].success
    ELSE LET failed(m) ==
                IF m \in DOMAIN report.scenarioModeStats[s]
                THEN report.scenarioModeStats[s][m].total
                     - report.scenarioModeStats[s][m].success
                ELSE 0
         IN failed("ImmediateRead") + failed("PostRecoveryRead")

\* C7 (as claimed): a trial whose recovery detection timed out is not counted
\* as a failed trial in the report: the failures the report shows for a
\* scenario are failed trials other than recovery timeouts.
C7_TimeoutNotCountedAsFailure ==
    run.pc = "done" =>
        \A s \in ScenariosRun :
            C7_FailuresReported(s)
                <= Cardinality({i \in DOMAIN results : results[i].Scenario = s /\ ~results[i].Success /\ ~C7_RecoveryTimedOut(results[i])})

\* C8: in an immediate-read trial whose write was acknowledged, whose
\* immediate read failed (error, timeout, not found or mismatch) and whose
\* post-recovery read returned the written value, the result has a non-empty
\* ImmediateReadErr and Success = true.
C8_ImmediateReadIndependent ==
    \A i \in 1..Len(results) :
        (/\ results[i].ReadMode = "ImmediateRead"
         /\ results[i].immediateRead \in {"error", "nil", "mismatch"}
         /\ results[i].verifyRead = "match")
        => (results[i].ImmediateReadErr # "" /\ results[i].Success)

\* An immediate-read trial found no key right after the termination and the
\* written value after the recovery.
C8_Witness ==
    \E i \in 1..Len(results) :
        /\ results[i].ReadMode = "ImmediateRead"
        /\ results[i].immediateRead = "nil"
        /\ results[i].verifyRead = "match"
        /\ results[i].ImmediateReadErr = "Key not found during immediate read"
        /\ results[i].Success

\* C9 (as claimed): whenever a trial issues a termination, the leader cache
\* has been refreshed since the trial's write and shows the captured pod and
\* term for the partition.
C9_ReconfirmedBeforeTermination ==
    [][ (t.fn # "none" /\ Len(deletes') > Len(deletes)) =>
            /\ polledSinceWrite
            /\ LET r == GetLeaderForPartition(leaderCache, t.partitionID) IN
                /\ r.exists
                /\ r.info.PodName = t.leader.PodName
                /\ r.info.Term = t.leader.Term
      ]_vars

(***************************************************************************)
(* terminateLeaderPod (SpecTerminate)                                      *)
(***************************************************************************)

\* C10: terminateLeaderPod called with a LeaderInfo without a pod name returns
\* the no-leader error and sends no delete request; when the platform fails
\* the delete request, it returns an error that carries the platform's error
\* and does not log the pod as terminated.
C10_TerminateErrors ==
    tp.pc = "done" =>
        /\ tp.leader.PodName = <<>> =>
            /\ tp.err.msg = "no leader pod to terminate"
            /\ deletes = <<>> /\ terminatedLog = <<>>
        /\ (deletes # <<>> /\ platformAnswer # "ok") =>
            /\ tp.err.msg = "failed to delete pod"
            /\ tp.err.cause = platformAnswer
            /\ tp.err.pod = deletes[1]
            /\ terminatedLog = <<>>

\* The platform refused the delete of the leader's pod.
C10_Witness ==
    /\ tp.pc = "done"
    /\ deletes = <<<<"consensus", "store", "1">>>>
    /\ platformAnswer = "forbidden"
    /\ tp.err.cause = "forbidden"

(***************************************************************************)
(* updateLeaderInfo (SpecRefresh)                                          *)
(***************************************************************************)

\* The partition an item is about, -1 if its name has no partition number.
PartitionOf(item) ==
    IF Len(item.groupName) >= 3 /\ IsNumeric(item.groupName[3])
    THEN Atoi(item.groupName[3]) ELSE -1

Unreadable(item) == ~item.hasStatus \/ ~item.hasLeader \/ ~item.hasName

\* C11 (as claimed): after a refresh whose query succeeded, every partition
\* of the response whose status, leader or leader name is missing does not
\* show a Ready leader in the cache any more, and every partition of the
\* response with a readable item shows that item's leader.
C11_UnreadableMarkedStale ==
    (rf.pc = "done" /\ ~rf.err) =>
        \A k \in 1..Len(rf.response) :
            LET item == rf.response[k]
                part == PartitionOf(item)
                last == \A n \in (k + 1)..Len(rf.response) :
                            PartitionOf(rf.response[n]) # part
            IN (part # -1 /\ last) =>
                IF Unreadable(item)
                THEN ~(part \in DOMAIN leaderCache /\ leaderCache[part].State = "Ready")
                ELSE /\ part \in DOMAIN leaderCache
                     /\ leaderCache[part].PodName = item.leaderName
                     /\ leaderCache[part].Term = item.term

(***************************************************************************)
(* leaderMux (SpecLock)                                                    *)
(***************************************************************************)

\* C12: a LeaderInfo returned by getLeaderForPartition has its pod name, term
\* and state from one and the same refresh, it is the entry that refresh
\* stored, whatever later refreshes did to the cache since (the caller holds
\* a copy), and no reader holds the lock while a refresh holds it.
C12_SnapshotFromOneRefresh ==
    /\ ~(lk.writer /\ lk.readers > 0)
    /\ \A r \in Readers :
        (lk.rd[r].pc = "done" /\ lk.rd[r].exists) =>
            /\ lk.rd[r].stamp.PodName = lk.rd[r].stamp.Term
            /\ lk.rd[r].stamp.Term = lk.rd[r].stamp.State
            /\ lk.rd[r].stamp.State \in 1..Len(lk.wrote)
            /\ lk.rd[r].leader = lk.wrote[lk.rd[r].stamp.State]

\* A reader holds the copy of the first refresh while the second refresh has
\* already stored another leader in the cache.
C12_Witness ==
    \E r \in Readers :
        /\ lk.rd[r].pc = "done" /\ lk.rd[r].exists
        /\ lk.rd[r].stamp.State = 1
        /\ lk.rd[r].leader.State = "Ready"
        /\ lk.refreshes = 2 /\ lk.upd.pc = "idle"
        /\ leaderCache[LockPartition] # lk.rd[r].leader

(***************************************************************************)
(* Verification reads (SpecVerdicts)                                       *)
(***************************************************************************)

\* C13: a verification read that finds no entry is a failure: the
\* linearizability check and the write-durability check set their verdict to
\* false, and a trial of either kind ends with Success = false and the
\* not-found error of its verification phase.
C13_NotFoundFails ==
    /\ ct.linRead.kind = "nil" => ~ct.linearizable
    /\ ct.durRead.kind = "nil" => ~ct.writeDurability
    /\ \A i \in 1..Len(results) :
        results[i].verifyRead = "nil" =>
            /\ ~results[i].Success
            /\ results[i].Error.phase =
                   IF results[i].ReadMode = "ImmediateRead"
                   THEN "Key not found during post-recovery verification"
                   ELSE "Key not found during verification"
    /\ (t.fn # "none" /\ t.result.verifyRead = "nil") =>
            /\ ~t.result.Success
            /\ t.result.Error.cause = "nil"

\* An immediate-read trial and a post-recovery trial have both been recorded
\* with a verification read that found no entry.
C13_Witness ==
    /\ \E i \in 1..Len(results) :
        results[i].ReadMode = "ImmediateRead" /\ results[i].verifyRead = "nil"
    /\ \E i \in 1..Len(results) :
        results[i].ReadMode # "ImmediateRead" /\ results[i].verifyRead = "nil"

(***************************************************************************)
(* detectSequenceGaps (SpecGaps)                                           *)
(***************************************************************************)

\* C14: when every write of the stream seq-1 .. seq-n reported success, the
\* gap list is empty, in whatever order the records are supplied.
C14_NoGapsWhenAllSucceed ==
    (an.pc = "done" /\ \A k \in 1..Len(an.writes) : an.writes[k].Success) =>
        an.gaps = <<>>

\* The call has returned for three or more successful writes whose records
\* were supplied out of order.
C14_Witness ==
    /\ an.pc = "done"
    /\ an.n >= 3
    /\ \A k \in 1..Len(an.writes) : an.writes[k].Success
    /\ \E k \in 2..Len(an.writes) : an.writes[k].SeqNum < an.writes[k - 1].SeqNum
    /\ an.gaps = <<>>

\* C15 (as claimed): the gap list holds exactly the numbers of 1 .. n that
\* have no successful write, the first and the last numbers included.
C15_EveryMissingNumberReported ==
    an.pc = "done" =>
        {an.gaps[k] : k \in 1..Len(an.gaps)} =
            {m \in 1..an.n :
                ~\E k \in 1..Len(an.writes) :
                    an.writes[k].SeqNum = m /\ an.writes[k].Success}

(***************************************************************************)
(* The client loops (SpecConcurrency)                                      *)
(***************************************************************************)

\* C16: a failed Put does not end a client's loop.  Each client goroutine
\* issues its Puts one after the other, for j = 1, 2, ..., and has issued
\* exactly operationsPerClient of them when it is done, whatever their
\* outcomes; each attempt is recorded with its outcome: in the log (both
\* tests), in the client's sequence (linearizability test) and in
\* acknowledgedWrites (durability test).
C16_EveryPutIssuedAndRecorded ==
    (ct.pc \in {"linClients", "durClients"}) =>
        \A i \in Clients :
            /\ Len(ct.puts[i]) = ct.j[i] - 1
            /\ Len(ct.puts[i]) <= ct.operationsPerClient
            /\ i \in ct.joined => Len(ct.puts[i]) = ct.operationsPerClient
            /\ ct.pc = "linClients" =>
                /\ ct.clientSequence[i] =
                       [k \in 1..Len(ct.puts[i]) |-> SequenceValue(i, k)]
                /\ {l \in ct.log : l.test = "Linearizability" /\ l.client = i} =
                       {[test |-> "Linearizability", client |-> i,
                         value |-> SequenceValue(i, k),
                         success |-> (ct.puts[i][k] = "ok")] :
                        k \in 1..Len(ct.puts[i])}
            /\ ct.pc = "durClients" =>
                /\ {l \in ct.log : l.test = "WriteDurability" /\ l.client = i} =
                       {[test |-> "WriteDurability", client |-> i,
                         value |-> WriteValue(i, k),
                         success |-> (ct.puts[i][k] = "ok")] :
                        k \in 1..Len(ct.puts[i])}
                /\ Cardinality({n \in 1..Len(ct.acknowledgedWrites) :
                                   ct.acknowledgedWrites[n].ClientID = i}) =
                       Len(ct.puts[i])
                /\ \A k \in 1..Len(ct.puts[i]) :
                       \E n \in 1..Len(ct.acknowledgedWrites) :
                           /\ ct.acknowledgedWrites[n] =
                                  [ClientID |-> i, Value |-> WriteValue(i, k),
                                   Success |-> (ct.puts[i][k] = "ok")]
                           /\ \A m \in 1..(n - 1) :
                                  ct.acknowledgedWrites[m].Value # WriteValue(i, k + 1)

\* A durability client whose first Put failed has gone on to a second Put,
\* which succeeded, and is done.
C16_Witness ==
    /\ ct.pc = "durClients"
    /\ ct.operationsPerClient = 2
    /\ \E i \in Clients :
        /\ i \in ct.joined
        /\ ct.puts[i] = <<"error", "ok">>

\* C17: the final read and the verdict of a test come after every client
\* goroutine of the test is done: when the linearizability test has read,
\* every client has stored its complete sequence; when the durability test
\* has read, acknowledgedWrites holds concurrentClients x operationsPerClient
\* records, one per Put of every client, and stays so.
C17_ReadAfterJoin ==
    /\ ct.linRead.kind # "none" =>
        /\ DOMAIN ct.clientSequences = Clients
        /\ \A i \in Clients :
            ct.clientSequences[i] =
                [k \in 1..ct.operationsPerClient |-> SequenceValue(i, k)]
        /\ ct.pc = "dur" => ct.joined = Clients
    /\ ct.durRead.kind # "none" =>
        /\ ct.joined = Clients
        /\ Len(ct.acknowledgedWrites) = ct.concurrentClients * ct.operationsPerClient
        /\ \A i \in Clients, k \in 1..ct.operationsPerClient :
            \E n \in 1..Len(ct.acknowledgedWrites) :
                ct.acknowledgedWrites[n].Value = WriteValue(i, k)

\* Both tests have made their final read after two clients made two Puts
\* each.
C17_Witness ==
    /\ ct.concurrentClients = 2 /\ ct.operationsPerClient = 2
    /\ ct.linRead.kind # "none" /\ ct.durRead.kind # "none"
    /\ Len(ct.acknowledgedWrites) = 4

(***************************************************************************)
(* Cancellation (SpecFailover)                                             *)
(***************************************************************************)

\* C18 (as claimed): once the top-level context is cancelled the run loop
\* starts no further trial.
C18_NoTrialAfterCancel ==
    [][(ctxDone /\ t.fn = "none") => t'.fn = "none"]_vars

(***************************************************************************)
(* Cancellation of the wait loops (SpecWait)                               *)
(***************************************************************************)

\* A wait function that returns while the context is cancelled does not
\* return a leader: a leader comes from a poll, and no poll succeeds with a
\* cancelled context.
C19_NoLeaderAfterCancel ==
    [][(ctxDone /\ w.pc # "done" /\ w'.pc = "done") => w'.ret.kind # "leader"]_vars

\* C19 (as claimed): a wait function that returns after the context was
\* cancelled returns the cancellation error.
C19_CancelledReturnsCancellation ==
    [][(ctxDone /\ w.fn # "none" /\ w.pc # "done" /\ w'.pc = "done") =>
            w'.ret.kind = "cancelled"]_vars

(***************************************************************************)
(* The results list (SpecFailover)                                         *)
(***************************************************************************)

\* C20: the results list only grows, by exactly the result of each trial
\* function that returns, so that every trial started has its one result
\* once it is over; a result with Success = false has a non-empty Error that
\* names the failed phase, and a result with Success = true has an empty
\* Error.
C20_EveryTrialRecorded ==
    [][ /\ Len(results') \in {Len(results), Len(results) + 1}
        /\ SubSeq(results', 1, Len(results)) = results
        /\ Len(results') = Len(results) + 1 <=>
               (t.fn # "none" /\ t.pc = "return" /\ t'.fn = "none")
        /\ Len(results') = Len(results) + 1 => results'[Len(results')] = t.result
        /\ testCounter' = Len(results') + (IF t'.fn # "none" THEN 1 ELSE 0)
        /\ \A i \in 1..Len(results') :
               /\ results'[i].TestID.n = i
               /\ IF results'[i].Success
                  THEN results'[i].Error = NoErr
                  ELSE results'[i].Error.phase # ""
      ]_vars

\* The run is over with a successful and a failed trial recorded.
C20_Witness ==
    /\ run.pc = "done"
    /\ Len(results) = 2
    /\ \E i \in 1..Len(results) : results[i].Success /\ results[i].Error = NoErr
    /\ \E i \in 1..Len(results) : ~results[i].Success /\ results[i].Error.phase # ""

(***************************************************************************)
(* Failed terminations (SpecFailover)                                      *)
(***************************************************************************)

\* C21: when terminateLeaderPod cannot delete the leader pod (no request
\* could be sent, or the platform answered the request with an error), the
\* trial function returns at once with "Failed to terminate leader": no
\* election wait is started and no read is made; the result is recorded as
\* failed, and the run still makes every trial of its table.
C21_TerminationFailureEndsTrial ==
    [][ /\ (t.fn # "none" /\ t.pc = "delay" /\ t'.pc # "delay"
             /\ (deletes' = deletes \/ platformAnswer' \in PlatformErrors)) =>
               /\ t'.pc = "return"
               /\ ~t'.result.Success
               /\ t'.result.Error.phase = "Failed to terminate leader"
               /\ t'.result.immediateRead = "none"
               /\ t'.result.verifyRead = "none"
               /\ w' = w
               /\ terminatedLog' = terminatedLog
        /\ \A i \in 1..Len(results') :
               results'[i].Error.phase = "Failed to terminate leader" =>
                   /\ ~results'[i].Success
                   /\ results'[i].immediateRead = "none"
                   /\ results'[i].verifyRead = "none"
                   /\ results'[i].LeaderAfter = ZeroLeaderInfo
        /\ run'.pc = "done" =>
               Len(results') = Len(Entries) * (IF run.mode = "comprehensive" THEN 2 ELSE 1)
      ]_vars

\* The first trial failed at the termination and a later trial has been
\* recorded after it.
C21_Witness ==
    /\ Len(results) >= 2
    /\ results[1].Error.phase = "Failed to terminate leader"
    /\ results[1].Error.cause = "failed to delete pod"

(***************************************************************************)
(* Success rates per scenario (SpecFailover)                               *)
(***************************************************************************)

\* The SCENARIO_SUMMARY lines of generateDetailedReport count, for each
\* scenario, every trial recorded in it and the successful ones among them.
C22_DetailedReportCounts ==
    report.kind = "detailed" =>
        \A s \in ScenariosRun :
            /\ s \in DOMAIN report.scenarioStats
            /\ report.scenarioStats[s].total =
                   Cardinality({i \in 1..Len(results) : results[i].Scenario = s})
            /\ report.scenarioStats[s].success =
                   Cardinality({i \in 1..Len(results) :
                                   results[i].Scenario = s /\ results[i].Success})

\* C22 (as claimed): the analysis of the log reports, for each scenario in
\* which a post-recovery trial ran, all those trials as its total and the
\* successful ones as its successes, so that a failed trial lowers the rate.
C22_RateCountsFailedTrials ==
    ar.pc = "done" =>
        \A s \in {results[i].Scenario :
                    i \in {j \in 1..Len(results) :
                              results[j].ReadMode = "PostRecoveryRead"}} :
            /\ s \in DOMAIN ar.stats
            /\ ar.stats[s].TotalTests =
                   Cardinality({i \in 1..Len(results) :
                                   /\ results[i].Scenario = s
                                   /\ results[i].ReadMode = "PostRecoveryRead"})
            /\ ar.stats[s].Successful =
                   Cardinality({i \in 1..Len(results) :
                                   /\ results[i].Scenario = s
                                   /\ results[i].ReadMode = "PostRecoveryRead"
                                   /\ results[i].Success})

(***************************************************************************)
(* The initial write-read pair (SpecConnectivity)                          *)
(***************************************************************************)

\* C23: the initial write-read pair of a harness passes iff the Put
\* succeeded and the Get returned, without error, an entry with exactly the
\* value written; the harness starts its workload only when the pair passed,
\* and leaves otherwise.
C23_ReadYourWrites ==
    /\ cn.pc \in {"workload", "exit"} =>
        (cn.pc = "workload" <=>
            /\ cn.put = "ok"
            /\ cn.read = [kind |-> "entry", value |-> cn.value])
    /\ (run.mode # "none" \/ ct.pc # "none") =>
        /\ cn.pc = "workload"
        /\ cn.read = [kind |-> "entry", value |-> cn.value]

\* A harness has left because the Get returned the value of an earlier start.
C23_Witness ==
    /\ cn.pc = "exit"
    /\ cn.put = "ok"
    /\ cn.read.kind = "entry" /\ cn.read.value # cn.value

(***************************************************************************)
(* The partition of a trial's key (SpecFailover)                           *)
(***************************************************************************)

EntryOfTrial(i) == IF run.mode = "comprehensive" THEN (i + 1) \div 2 ELSE i

\* The read mode of the i-th trial of the run.
ModeOfTrial(i) ==
    IF run.mode = "comprehensive" /\ i % 2 = 1 THEN "ImmediateRead" ELSE "PostRecoveryRead"

\* C25: in comprehensive mode every (scenario, delay) entry runs one
\* immediate-read trial and then one post-recovery trial, in precision mode
\* one post-recovery trial; the trials run one after another: while the loop
\* is between trials no trial frame and no wait is in progress, and
\* the trial in progress is the one after the last one recorded.
C25_TrialsInOrder ==
    run.mode # "none" =>
        /\ \A i \in 1..Len(results) :
            /\ EntryOfTrial(i) \in 1..Len(Entries)
            /\ results[i].Scenario = Entries[EntryOfTrial(i)].scenario
            /\ results[i].ReadMode = ModeOfTrial(i)
        /\ run.pc = "done" =>
            Len(results) = (IF run.mode = "comprehensive" THEN 2 ELSE 1) * Len(Entries)
        /\ run.pc # "trial" =>
            /\ t = NoTrial
            /\ w.fn # "none" => w.pc = "done"
            /\ testCounter = Len(results)
        /\ run.pc = "trial" =>
            /\ testCounter = Len(results) + 1
            /\ t.result.ReadMode = ModeOfTrial(testCounter)
            /\ t.result.Scenario = Entries[EntryOfTrial(testCounter)].scenario

\* A comprehensive run has recorded the immediate-read trial of an entry and
\* the post-recovery trial of the same entry has written its value.
C25_Witness ==
    /\ run.mode = "comprehensive" /\ run.pc = "trial"
    /\ Len(results) = 1 /\ results[1].ReadMode = "ImmediateRead"
    /\ t.fn = "precision" /\ t.pc = "delay"

(***************************************************************************)
(* The write precedes the termination (SpecFailover)                       *)
(***************************************************************************)

\* The trials, recorded or in progress, that have issued their termination.
TrialsPastTermination ==
    Cardinality({i \in DOMAIN results : results[i].put = "ok"})
    + (IF t.fn # "none" /\ t.result.put = "ok" /\ t.pc # "delay" THEN 1 ELSE 0)

\* C26: a trial issues the termination of the leader only after its Put has
\* returned success and the delay has passed, against the leader that
\* waitForReadyLeader returned; a trial whose write failed, or that found no
\* ready leader, sends no delete request: there are never more delete
\* requests than trials whose Put succeeded.
C26_TerminationAfterWrite ==
    [][/\ deletes' # deletes =>
            /\ t.fn # "none" /\ t.pc = "delay"
            /\ t.result.put = "ok"
            /\ t.leader = t.result.LeaderBefore /\ t.leader.State = "Ready"
            /\ Len(deletes') = Len(deletes) + 1
       /\ Len(deletes') <= TrialsPastTermination']_vars

\* A trial whose write failed has been recorded, no pod was deleted for it,
\* and the next trial has deleted the pod of its leader.
C26_Witness ==
    /\ Len(results) >= 1
    /\ results[1].put = "error" /\ results[1].Error.phase = "Write failed"
    /\ t.fn # "none" /\ t.result.put = "ok" /\ t.pc \in {"waitElection", "immediateRead"}
    /\ Len(deletes) = 1

(***************************************************************************)
(* The target of the termination (SpecTerminate)                           *)
(***************************************************************************)

C28_PlatformConfirmedTwice ==
    (w.fn = "election" /\ w.ret.kind = "leader") => w.reports = 2

(***************************************************************************)
(* A failed refresh in the wait loops (SpecFailover)                       *)
(***************************************************************************)

\* C29: a refresh whose platform query fails returns an error and leaves the
\* leader cache exactly as it was; the wait that called it (the refresh
\* before the loop, the refresh of a tick, or the re-poll after the settle
\* wait) returns nothing on it and goes back to its select, and the trial
\* goes on.
C29_FailedRefreshKeepsCache ==
    [][(/\ w.fn # "none" /\ w.pc \in {"first", "refresh", "settle"}
        /\ w'.pc # w.pc /\ w'.err) =>
            /\ leaderCache' = leaderCache
            /\ w'.pc = "select"
            /\ w'.ret = NoRet
            /\ t' = t /\ run' = run]_vars

\* The refresh before the loop of waitForReadyLeader has failed while the
\* cache held a Ready leader with a pod for the partition, left by the trial
\* before: nothing was returned.
C29_Witness ==
    /\ Len(results) >= 1
    /\ w.fn = "ready" /\ w.pc = "select" /\ w.err
    /\ ~w.tickerC /\ ~w.timeoutC
    /\ ReadyWithPod(GetLeaderForPartition(leaderCache, w.partitionID))
    /\ w.ret = NoRet

(***************************************************************************)
(* The final report of the concurrency harness (SpecConcurrency)           *)
(***************************************************************************)

\* C30 (as claimed): the final report shows PASS for linearizability, and
\* likewise for write durability, only if the final read of that test was
\* performed and its value passed the check; a test that returned an error
\* before its verification is not reported as PASS.
C30_PassOnlyAfterVerification ==
    ct.finalReport.written =>
        /\ ct.finalReport.linearizable =>
            /\ "Linearizability" \notin ct.returnedError
            /\ ct.linRead.kind = "entry"
            /\ ct.linCheck.written /\ ct.linCheck.success
        /\ ct.finalReport.writeDurability =>
            /\ "Write Durability" \notin ct.returnedError
            /\ ct.durRead.kind = "entry"
            /\ ct.durCheck.written /\ ct.durCheck.success

(***************************************************************************)
(* The writeLog map of experiment 3 (SpecWriteLog)                         *)
(***************************************************************************)

\* C31 (as claimed): every read and every write of the writeLog map by the
\* continuous writer and the continuous reader happens while writeLogMux is
\* held, so the reader never accesses the map while the writer inserts.
C31_WriteLogUnderMutex ==
    /\ wl.wpc = "insert" => wl.locked
    /\ wl.rpc \in {"collect", "lookup"} => wl.rlocked
    /\ ~(wl.wpc = "insert" /\ wl.rpc = "lookup")

(***************************************************************************)
(* The log analyzer's rates and latencies (SpecAnalysis)                   *)
(***************************************************************************)

\* C32 (as claimed): a read that found no key is counted among the reads that
\* lower the consistency rate: an analysed log with a not-found read never
\* has a consistency rate of 100%.
C32_NotFoundLowersConsistency ==
    (an.pc = "done" /\ \E k \in 1..Len(an.reads) : an.reads[k].kind = "nil") =>
        /\ an.result.InconsistentReads >= 1
        /\ an.result.ConsistencyRate < 100

\* C34 (as claimed): for every non-empty list of durations
\* calculateLatencyStats returns Min <= Median <= P95 <= P99 <= Max, each an
\* element of the list, for a list of length 1 as well.
C34_LatencyStatsOrdered ==
    (an.pc = "done" /\ Len(an.reads) >= 1) =>
        LET stats == an.result.ReadLatency
            input == {an.reads[k].Duration : k \in 1..Len(an.reads)}
        IN /\ stats.Min <= stats.Median /\ stats.Median <= stats.P95
           /\ stats.P95 <= stats.P99 /\ stats.P99 <= stats.Max
           /\ {stats.Min, stats.Median, stats.P95, stats.P99, stats.Max} \subseteq input

(***************************************************************************)
(* Names with too few fields (SpecParsing)                                 *)
(***************************************************************************)

\* C33 (as claimed): the parsing of group and leader names never aborts the
\* process: for a RaftGroup name with fewer fields than the code indexes
\* updateLeaderInfo skips the item and returns, and for a non-empty pod name
\* with fewer fields terminateLeaderPod returns an error.
C33_ParsingNeverPanics ==
    /\ rf.pc # "panic"
    /\ tp.pc # "panic"
    /\ (tp.pc = "done" /\ tp.leader.PodName # <<>> /\ Len(tp.leader.PodName) < 4) =>
        tp.err # NoError


(***************************************************************************)
(* C35: a StartElection call for a device that already has an active       *)
(* election leaves the manager as it was and releases mu, so that later    *)
(* calls are not blocked: whenever mu is held, its holder is inside a      *)
(* call.                                                                   *)
(***************************************************************************)
C35_LockReleasedOnReturn ==
    em.mu # 0 => em.calls[em.mu].pc \notin {"idle", "none"}

LiveElections(deviceID) ==
    {e \in DOMAIN em.elections :
        /\ em.elections[e].dev = deviceID
        /\ em.elections[e].started
        /\ ~em.elections[e].cancelled}

(***************************************************************************)
(* C36: for each device at most one started election is not cancelled,     *)
(* and that election is the one stored in active for the device (so        *)
(* StopElection reaches its cancel), also with concurrent StartElection    *)
(* calls.                                                                  *)
(***************************************************************************)
C36_OneElectionPerDevice ==
    \A d \in ManagedDevices :
        /\ Cardinality(LiveElections(d)) <= 1
        /\ \A e \in LiveElections(d) : em.active[d] = e


(***************************************************************************)
(* C37: an iteration of the election loop puts "leader <hostname>" into    *)
(* the config map only when the leader of the term it processes differs    *)
(* from the leader of the previous term it saw (or there was none) and is  *)
(* its own candidate ID; so whenever its last iteration wrote, the latest  *)
(* term it has seen names itself as leader.                                *)
(***************************************************************************)
C37_WritesOnlyOnOwnLeadership ==
    /\ re.wrote =>
          /\ re.cache.Leader = Hostname
          /\ re.prev = NoTerm \/ re.prev.Leader # re.cache.Leader
    /\ re.value # <<>> => re.value = <<"leader", Hostname>>

C37_Witness ==
    /\ re.wrote
    /\ re.prev # NoTerm
    /\ re.prev.Leader = OtherController
    /\ re.puts = 2


(***************************************************************************)
(* C38: MonitorHeartbeat removes and evicts only nodes whose heartbeat is  *)
(* older than the threshold: at the moment the monitor removes a node, the *)
(* heartbeat recorded for it in the heartbeat map is older than the        *)
(* threshold.                                                              *)
(***************************************************************************)
C38_FreshNodeNeverRemoved ==
    hb.removal # NoRemoval =>
        /\ hb.removal.recorded # Absent
        /\ Offline(hb.removal.at, hb.removal.recorded)

====
